---- MODULE Spec2Model ----
(***************************************************************************)
(* State-machine model of OpenXRTutorial (Chapter2/main.cpp): Run, the     *)
(* event pump PollEvents, and the frame protocol RenderFrame/RenderLayer.  *)
(* The XR runtime is the environment: it queues notifications and chooses  *)
(* the result of every call.                                               *)
(***************************************************************************)
EXTENDS Integers, Sequences, FiniteSets, TLC

\* ------------------------------------------------------------------ bounds
\* Notifications the runtime delivers over a run.
MaxEvents == 3
\* Views of the negotiated view configuration (2 = stereo); xrLocateViews
\* reports any view count up to it.
MaxViews == 2
\* Notifications the runtime delivers over a run when it draws them from
\* every kind the switch of PollEvents can see (SpecAnyKind).
MaxAnyKindEvents == 2
\* Notifications the runtime delivers over a run of FairSpec.
MaxFairEvents == 2
\* Images the runtime gives a swapchain.
MaxImages == 2
\* Largest set a capability query of the runtime enumerates, and how often
\* the two-call protocol is run against it (SpecEnumeration).
MaxItems == 3
MaxRuns == 2
\* Longest preference list the capability negotiation is tried with
\* (SpecNegotiation).
MaxPrefs == 3

\* ------------------------------------------------------------------ values
XR_SESSION_STATE_UNKNOWN == "UNKNOWN"
XR_SESSION_STATE_IDLE == "IDLE"
XR_SESSION_STATE_READY == "READY"
XR_SESSION_STATE_SYNCHRONIZED == "SYNCHRONIZED"
XR_SESSION_STATE_VISIBLE == "VISIBLE"
XR_SESSION_STATE_FOCUSED == "FOCUSED"
XR_SESSION_STATE_STOPPING == "STOPPING"
XR_SESSION_STATE_LOSS_PENDING == "LOSS_PENDING"
XR_SESSION_STATE_EXITING == "EXITING"

XrSessionState ==
  { XR_SESSION_STATE_UNKNOWN, XR_SESSION_STATE_IDLE, XR_SESSION_STATE_READY,
    XR_SESSION_STATE_SYNCHRONIZED, XR_SESSION_STATE_VISIBLE,
    XR_SESSION_STATE_FOCUSED, XR_SESSION_STATE_STOPPING,
    XR_SESSION_STATE_LOSS_PENDING, XR_SESSION_STATE_EXITING }

\* The session handle the application created, and a handle it did not.
m_Session == "m_Session"
OtherSession == "otherSession"
NoSession == "noSession"
NoState == "noState"

XR_TYPE_EVENT_DATA_EVENTS_LOST == "EVENTS_LOST"
XR_TYPE_EVENT_DATA_INSTANCE_LOSS_PENDING == "INSTANCE_LOSS_PENDING"
XR_TYPE_EVENT_DATA_INTERACTION_PROFILE_CHANGED == "INTERACTION_PROFILE_CHANGED"
XR_TYPE_EVENT_DATA_REFERENCE_SPACE_CHANGE_PENDING == "REFERENCE_SPACE_CHANGE_PENDING"
XR_TYPE_EVENT_DATA_SESSION_STATE_CHANGED == "SESSION_STATE_CHANGED"

Event(type, session, state) == [type |-> type, session |-> session, state |-> state]

\* The notification records xrPollEvent can deliver to the switch of PollEvents.
XrEventDataBuffer ==
  { Event(XR_TYPE_EVENT_DATA_EVENTS_LOST, NoSession, NoState),
    Event(XR_TYPE_EVENT_DATA_INSTANCE_LOSS_PENDING, NoSession, NoState) }
  \cup { Event(t, s, NoState) :
           t \in { XR_TYPE_EVENT_DATA_INTERACTION_PROFILE_CHANGED,
                   XR_TYPE_EVENT_DATA_REFERENCE_SPACE_CHANGE_PENDING },
           s \in { m_Session, OtherSession } }
  \cup { Event(XR_TYPE_EVENT_DATA_SESSION_STATE_CHANGED, s, st) :
           s \in { m_Session, OtherSession }, st \in XrSessionState }

\* The notifications the runtime queues in Spec: every state change of the
\* owned session, instance loss, and one notification for each way the
\* switch ignores one (a kind without effect, a foreign session handle).
QueuedKinds ==
  { Event(XR_TYPE_EVENT_DATA_EVENTS_LOST, NoSession, NoState),
    Event(XR_TYPE_EVENT_DATA_INSTANCE_LOSS_PENDING, NoSession, NoState),
    Event(XR_TYPE_EVENT_DATA_SESSION_STATE_CHANGED, OtherSession, XR_SESSION_STATE_READY) }
  \cup { Event(XR_TYPE_EVENT_DATA_SESSION_STATE_CHANGED, m_Session, st) :
           st \in XrSessionState }

\* View configuration types and environment blend modes; MAX_ENUM is the
\* value of a member no negotiation has set.
XR_VIEW_CONFIGURATION_TYPE_PRIMARY_MONO == "PRIMARY_MONO"
XR_VIEW_CONFIGURATION_TYPE_PRIMARY_STEREO == "PRIMARY_STEREO"
XR_VIEW_CONFIGURATION_TYPE_PRIMARY_QUAD_VARJO == "PRIMARY_QUAD_VARJO"
XR_VIEW_CONFIGURATION_TYPE_MAX_ENUM == "VIEW_CONFIGURATION_TYPE_MAX_ENUM"
XrViewConfigurationType ==
  { XR_VIEW_CONFIGURATION_TYPE_PRIMARY_MONO, XR_VIEW_CONFIGURATION_TYPE_PRIMARY_STEREO,
    XR_VIEW_CONFIGURATION_TYPE_PRIMARY_QUAD_VARJO }

XR_ENVIRONMENT_BLEND_MODE_OPAQUE == "OPAQUE"
XR_ENVIRONMENT_BLEND_MODE_ADDITIVE == "ADDITIVE"
XR_ENVIRONMENT_BLEND_MODE_ALPHA_BLEND == "ALPHA_BLEND"
XR_ENVIRONMENT_BLEND_MODE_MAX_ENUM == "ENVIRONMENT_BLEND_MODE_MAX_ENUM"
XrEnvironmentBlendMode ==
  { XR_ENVIRONMENT_BLEND_MODE_OPAQUE, XR_ENVIRONMENT_BLEND_MODE_ADDITIVE,
    XR_ENVIRONMENT_BLEND_MODE_ALPHA_BLEND }

\* Results of xrPollEvent.
XR_SUCCESS == "XR_SUCCESS"
XR_EVENT_UNAVAILABLE == "XR_EVENT_UNAVAILABLE"
XR_ERROR == "XR_ERROR"

VARIABLES
  pc,                        \* position of the single control thread in Run
  m_applicationRunning,
  m_sessionRunning,
  m_SessionState,
  m_applicationViewConfigurations,     \* preference list, in priority order
  m_viewConfigurations,                \* what the runtime enumerated
  m_viewConfiguration,
  m_viewConfigurationViews,  \* size of the vector (number of views)
  m_applicationEnvironmentBlendModes,  \* preference list, in priority order
  m_environmentBlendModes,             \* what the runtime enumerated
  m_environmentBlendMode,
  m_colorSwapchainInfos,     \* per view: swapchain handle and image views
  m_depthSwapchainInfos,
  swapchainCalls,            \* history: calls that create / destroy swapchains and image views
  runtimeItems,              \* two-call enumeration: the array the runtime enumerates
  enumBuffer,                \* two-call enumeration: the vector the application fills
  enumRuns,                  \* history: count and vector after each completed enumeration
  queue,                     \* the runtime's event queue
  frameState,                \* RenderFrame: frameState.shouldRender
  rendered,                  \* RenderFrame: rendered
  layers,                    \* renderLayerInfo.layers
  layerProjection,           \* renderLayerInfo.layerProjection.viewCount
  layerProjectionViews,      \* renderLayerInfo.layerProjectionViews
  viewCount,                 \* RenderLayer: viewCount
  i,                         \* RenderLayer: loop index
  result,                    \* RenderLayer: result of xrLocateViews
  acquired,                  \* swapchain images acquired and not released
  colorImageIndex,           \* RenderLayer: image acquired from the color swapchain
  depthImageIndex,           \* RenderLayer: image acquired from the depth swapchain
  clearedImageViews,         \* history: image views cleared in this RenderLayer
  frameEndInfo,              \* what xrEndFrame was given
  handled,                   \* history: notifications taken from the queue
  sessionCalls,              \* history: xrBeginSession / xrEndSession calls
  frameCalls,                \* history: runtime calls of the current RenderFrame
  lifeCalls,                 \* history: create / destroy calls of Run
  iterPasses,                \* drain passes completed in this loop iteration
  pass                       \* bookkeeping of the current drain pass

flags == <<m_applicationRunning, m_sessionRunning, m_SessionState>>
viewConfig == <<m_applicationViewConfigurations, m_viewConfigurations,
                m_viewConfiguration, m_viewConfigurationViews>>
blendMode == <<m_applicationEnvironmentBlendModes, m_environmentBlendModes,
               m_environmentBlendMode>>
config == <<viewConfig, blendMode>>
swapchains == <<m_colorSwapchainInfos, m_depthSwapchainInfos, swapchainCalls>>
enumeration == <<runtimeItems, enumBuffer, enumRuns>>
members == <<config, swapchains, enumeration>>
locals == <<frameState, rendered, layers, layerProjection, layerProjectionViews,
            viewCount, i, result, acquired, colorImageIndex, depthImageIndex,
            clearedImageViews, frameEndInfo>>
history == <<handled, sessionCalls, lifeCalls>>
vars == <<pc, flags, members, queue, locals, history,
          frameCalls, iterPasses, pass>>

\* ------------------------------------------------------------------ helpers
Last(s) == s[Len(s)]

\* OPENXR_CHECK(x, y): TRUE iff execution continues past the checked call.
OPENXR_CHECK(ok) == ok

\* No xrEndFrame call made yet in this frame.
NoFrameEnd == [layerCount |-> -1, layers |-> <<>>, views |-> <<>>]

NoPass == [start |-> 0, handled |-> 0, added |-> FALSE, last |-> "none"]

NoLocals ==
  /\ frameState = FALSE
  /\ rendered = FALSE
  /\ layers = <<>>
  /\ layerProjection = 0
  /\ layerProjectionViews = <<>>
  /\ viewCount = 0
  /\ i = 0
  /\ result = "none"
  /\ acquired = {}
  /\ colorImageIndex = 0
  /\ depthImageIndex = 0
  /\ clearedImageViews = <<>>
  /\ frameEndInfo = NoFrameEnd

\* The members whose initialisers no specification varies.
InitMembers ==
  /\ pc = "CreateInstance"
  /\ m_applicationRunning = TRUE
  /\ m_sessionRunning = FALSE
  /\ m_SessionState = XR_SESSION_STATE_UNKNOWN
  /\ m_viewConfigurations = {}
  /\ m_viewConfiguration = XR_VIEW_CONFIGURATION_TYPE_MAX_ENUM
  /\ m_viewConfigurationViews = 0
  /\ m_environmentBlendModes = {}
  /\ m_environmentBlendMode = XR_ENVIRONMENT_BLEND_MODE_MAX_ENUM
  /\ m_colorSwapchainInfos = <<>>
  /\ m_depthSwapchainInfos = <<>>
  /\ swapchainCalls = <<>>
  /\ enumBuffer = <<>>
  /\ enumRuns = <<>>
  /\ queue = <<>>
  /\ NoLocals
  /\ handled = <<>>
  /\ sessionCalls = <<>>
  /\ frameCalls = <<>>
  /\ lifeCalls = <<>>
  /\ iterPasses = 0
  /\ pass = NoPass

Init ==
  /\ m_applicationViewConfigurations =
       << XR_VIEW_CONFIGURATION_TYPE_PRIMARY_STEREO, XR_VIEW_CONFIGURATION_TYPE_PRIMARY_MONO >>
  /\ m_applicationEnvironmentBlendModes =
       << XR_ENVIRONMENT_BLEND_MODE_OPAQUE, XR_ENVIRONMENT_BLEND_MODE_ADDITIVE >>
  /\ runtimeItems = <<>>
  /\ InitMembers


\* ------------------------------------------------------------------ PollEvents
\* What the handlers read and write: the three flags, the session calls made
\* so far, and whether an OPENXR_CHECK stopped the program.
Ctx(app, run, st, calls) ==
  [app |-> app, run |-> run, st |-> st, calls |-> calls, fatal |-> FALSE]

\* case XR_TYPE_EVENT_DATA_EVENTS_LOST
OnEventsLost(ev, f) == f

\* Mutant of OnInstanceLossPending: only m_applicationRunning is cleared.
OnInstanceLossPending_KeepsSession(ev, f) == [f EXCEPT !.app = FALSE]

\* case XR_TYPE_EVENT_DATA_INSTANCE_LOSS_PENDING
OnInstanceLossPending(ev, f) == [f EXCEPT !.run = FALSE, !.app = FALSE]

\* case XR_TYPE_EVENT_DATA_INTERACTION_PROFILE_CHANGED: both branches break
OnInteractionProfileChanged(ev, f) == IF ev.session # m_Session THEN f ELSE f

\* case XR_TYPE_EVENT_DATA_REFERENCE_SPACE_CHANGE_PENDING: both branches break
OnReferenceSpaceChangePending(ev, f) == IF ev.session # m_Session THEN f ELSE f

\* Mutant of OnReady: a begun session sets m_applicationRunning as well.
OnReady_RestartsApplication(ok, f) ==
  LET called == [f EXCEPT !.calls = Append(@, "xrBeginSession")]
  IN  IF OPENXR_CHECK(ok) THEN [called EXCEPT !.run = TRUE, !.app = TRUE]
      ELSE [called EXCEPT !.fatal = TRUE]

\* Mutant of OnReady: xrBeginSession is called twice.
OnReady_CallsTwice(ok, f) ==
  LET called == [f EXCEPT !.calls = @ \o <<"xrBeginSession", "xrBeginSession">>]
  IN  IF OPENXR_CHECK(ok) THEN [called EXCEPT !.run = TRUE]
      ELSE [called EXCEPT !.fatal = TRUE]

\* Mutant of OnReady: m_sessionRunning is set before the call is checked.
OnReady_SetsBeforeCheck(ok, f) ==
  LET called == [f EXCEPT !.calls = Append(@, "xrBeginSession"), !.run = TRUE]
  IN  IF OPENXR_CHECK(ok) THEN called ELSE [called EXCEPT !.fatal = TRUE]

\* if (state == XR_SESSION_STATE_READY) { xrBeginSession; m_sessionRunning = true; }
OnReady(ok, f) ==
  LET called == [f EXCEPT !.calls = Append(@, "xrBeginSession")]
  IN  IF OPENXR_CHECK(ok) THEN [called EXCEPT !.run = TRUE]
      ELSE [called EXCEPT !.fatal = TRUE]

\* Mutant of OnStopping: the notification has no effect.
OnStopping_Ignored(ok, f) == f

\* Mutant of OnStopping: m_sessionRunning is left as it was.
OnStopping_KeepsRunning(ok, f) ==
  LET called == [f EXCEPT !.calls = Append(@, "xrEndSession")]
  IN  IF OPENXR_CHECK(ok) THEN called ELSE [called EXCEPT !.fatal = TRUE]

\* Mutant of OnStopping: m_applicationRunning is cleared as well.
OnStopping_EndsApplication(ok, f) ==
  LET called == [f EXCEPT !.calls = Append(@, "xrEndSession")]
  IN  IF OPENXR_CHECK(ok) THEN [called EXCEPT !.run = FALSE, !.app = FALSE]
      ELSE [called EXCEPT !.fatal = TRUE]

\* if (state == XR_SESSION_STATE_STOPPING) { xrEndSession; m_sessionRunning = false; }
OnStopping(ok, f) ==
  LET called == [f EXCEPT !.calls = Append(@, "xrEndSession")]
  IN  IF OPENXR_CHECK(ok) THEN [called EXCEPT !.run = FALSE]
      ELSE [called EXCEPT !.fatal = TRUE]

\* Mutant of OnExiting: the session is ended before the flags are cleared.
OnExiting_EndsSession(f) ==
  [f EXCEPT !.calls = Append(@, "xrEndSession"), !.run = FALSE, !.app = FALSE]

\* Mutant of OnExiting: only m_applicationRunning is cleared.
OnExiting_KeepsSession(f) == [f EXCEPT !.app = FALSE]

\* if (state == XR_SESSION_STATE_EXITING) { both flags false }
OnExiting(f) == [f EXCEPT !.run = FALSE, !.app = FALSE]

\* Mutant of OnLossPending: only m_applicationRunning is cleared.
OnLossPending_KeepsSession(f) == [f EXCEPT !.app = FALSE]

\* if (state == XR_SESSION_STATE_LOSS_PENDING) { both flags false }
OnLossPending(f) == [f EXCEPT !.run = FALSE, !.app = FALSE]

\* Mutant of StoreSessionState: a change to Idle is not stored.
StoreSessionState_SkipsIdle(state, f) ==
  IF state = XR_SESSION_STATE_IDLE THEN f ELSE [f EXCEPT !.st = state]

\* m_SessionState = sessionStateChanged->state
StoreSessionState(state, f) == [f EXCEPT !.st = state]

\* Mutant of OnSessionStateChanged: the session handle is not compared.
OnSessionStateChanged_NoSessionFilter(ev, ok, f) ==
  LET a == IF ev.state = XR_SESSION_STATE_READY THEN OnReady(ok, f) ELSE f
      b == IF ~a.fatal /\ ev.state = XR_SESSION_STATE_STOPPING
           THEN OnStopping(ok, a) ELSE a
      c == IF ~b.fatal /\ ev.state = XR_SESSION_STATE_EXITING
           THEN OnExiting(b) ELSE b
      d == IF ~c.fatal /\ ev.state = XR_SESSION_STATE_LOSS_PENDING
           THEN OnLossPending(c) ELSE c
  IN  IF d.fatal THEN d ELSE StoreSessionState(ev.state, d)

\* case XR_TYPE_EVENT_DATA_SESSION_STATE_CHANGED: the session filter, then the
\* chain of ifs in source order, then the store of the new state.  A failed
\* check leaves the rest of the handler unexecuted.
OnSessionStateChanged(ev, ok, f) ==
  IF ev.session # m_Session THEN f
  ELSE
    LET a == IF ev.state = XR_SESSION_STATE_READY THEN OnReady(ok, f) ELSE f
        b == IF ~a.fatal /\ ev.state = XR_SESSION_STATE_STOPPING
             THEN OnStopping(ok, a) ELSE a
        c == IF ~b.fatal /\ ev.state = XR_SESSION_STATE_EXITING
             THEN OnExiting(b) ELSE b
        d == IF ~c.fatal /\ ev.state = XR_SESSION_STATE_LOSS_PENDING
             THEN OnLossPending(c) ELSE c
    IN  IF d.fatal THEN d ELSE StoreSessionState(ev.state, d)

\* switch (eventData.type)
HandleEvent(ev, ok, f) ==
  CASE ev.type = XR_TYPE_EVENT_DATA_EVENTS_LOST -> OnEventsLost(ev, f)
    [] ev.type = XR_TYPE_EVENT_DATA_INSTANCE_LOSS_PENDING -> OnInstanceLossPending(ev, f)
    [] ev.type = XR_TYPE_EVENT_DATA_INTERACTION_PROFILE_CHANGED ->
         OnInteractionProfileChanged(ev, f)
    [] ev.type = XR_TYPE_EVENT_DATA_REFERENCE_SPACE_CHANGE_PENDING ->
         OnReferenceSpaceChangePending(ev, f)
    [] ev.type = XR_TYPE_EVENT_DATA_SESSION_STATE_CHANGED ->
         OnSessionStateChanged(ev, ok, f)
    [] OTHER -> f

\* Mutant of AfterHandler: PollEvents returns after one notification.
AfterHandler_ReturnsAtOnce(fatal) == IF fatal THEN "aborted" ELSE "if_sessionRunning"

\* After the switch: a failed check stops the program, otherwise the while
\* loop of PollEvents polls again.
AfterHandler(fatal) == IF fatal THEN "aborted" ELSE "PollEvents"

\* while (XrPollEvents()): the loop continues only on XR_SUCCESS.
PollContinues(res) == res = XR_SUCCESS

\* The results xrPollEvent can give for the queue as it is.
PollResults ==
  IF queue = <<>> THEN { XR_EVENT_UNAVAILABLE, XR_ERROR } ELSE { XR_SUCCESS, XR_ERROR }

\* One iteration of the while loop of PollEvents whose poll delivered the
\* head of the queue: the switch runs on it.
PollEvents_Handle ==
  /\ pc = "PollEvents"
  /\ \E res \in PollResults, ok \in BOOLEAN :
       /\ PollContinues(res)
       /\ res = XR_SUCCESS
       /\ LET ev == Head(queue)
              f == HandleEvent(ev, ok,
                     Ctx(m_applicationRunning, m_sessionRunning, m_SessionState,
                         sessionCalls))
          IN  /\ m_applicationRunning' = f.app
              /\ m_sessionRunning' = f.run
              /\ m_SessionState' = f.st
              /\ sessionCalls' = f.calls
              /\ handled' = Append(handled, ev)
              /\ queue' = Tail(queue)
              /\ pc' = AfterHandler(f.fatal)
              /\ pass' = [pass EXCEPT !.handled = @ + 1, !.last = res]
  /\ UNCHANGED <<members, locals, lifeCalls, frameCalls, iterPasses>>

\* Mutant of PollEvents_Return: a poll error ends the application.
PollEvents_Return_ErrorEndsApplication ==
  /\ pc = "PollEvents"
  /\ \E res \in PollResults :
       /\ ~PollContinues(res)
       /\ pass' = [pass EXCEPT !.last = res]
       /\ m_applicationRunning' = IF res = XR_ERROR THEN FALSE ELSE m_applicationRunning
  /\ pc' = "if_sessionRunning"
  /\ iterPasses' = iterPasses + 1
  /\ UNCHANGED <<m_sessionRunning, m_SessionState, members, queue, locals, history,
                 frameCalls>>

\* The poll that ends the drain pass: PollEvents returns to Run.
PollEvents_Return ==
  /\ pc = "PollEvents"
  /\ \E res \in PollResults :
       /\ ~PollContinues(res)
       /\ pass' = [pass EXCEPT !.last = res]
  /\ pc' = "if_sessionRunning"
  /\ iterPasses' = iterPasses + 1
  /\ UNCHANGED <<flags, members, queue, locals, history, frameCalls>>

\* ------------------------------------------------------------------ runtime
\* The application reads the queue only in PollEvents, so a notification that
\* arrives anywhere else in the loop body is seen exactly as one that arrives
\* at the loop test: arrivals are modelled at the loop test and during a pass.
ArrivalPcs == { "while", "PollEvents" }

\* The runtime queues a notification of one of the given kinds.
RuntimeQueues(kinds) ==
  /\ pc \in ArrivalPcs
  /\ Len(handled) + Len(queue) < MaxEvents
  /\ \E ev \in kinds : queue' = Append(queue, ev)
  /\ pass' = IF pc = "PollEvents" THEN [pass EXCEPT !.added = TRUE] ELSE pass
  /\ UNCHANGED <<pc, flags, members, locals, history,
                 frameCalls, iterPasses>>

RuntimeQueuesEvent == RuntimeQueues(QueuedKinds)

\* The runtime of FairSpec: the notifications of Spec, fewer of them.
RuntimeQueuesFairly ==
  /\ pc \in ArrivalPcs
  /\ Len(handled) + Len(queue) < MaxFairEvents
  /\ \E ev \in QueuedKinds : queue' = Append(queue, ev)
  /\ pass' = IF pc = "PollEvents" THEN [pass EXCEPT !.added = TRUE] ELSE pass
  /\ UNCHANGED <<pc, flags, members, locals, history, frameCalls, iterPasses>>

\* The runtime ends the run: it queues one notification that makes the
\* application leave its loop.
RuntimeEndsRun ==
  /\ pc \in ArrivalPcs
  /\ handled = <<>>
  /\ queue = <<>>
  /\ \E ev \in { Event(XR_TYPE_EVENT_DATA_INSTANCE_LOSS_PENDING, NoSession, NoState),
                 Event(XR_TYPE_EVENT_DATA_SESSION_STATE_CHANGED, m_Session,
                       XR_SESSION_STATE_EXITING) } :
       queue' = Append(queue, ev)
  /\ pass' = IF pc = "PollEvents" THEN [pass EXCEPT !.added = TRUE] ELSE pass
  /\ UNCHANGED <<pc, flags, members, locals, history, frameCalls, iterPasses>>

\* The runtime runs the session: it queues the notifications that begin it,
\* make it renderable and end the run.
RuntimeRunsSession ==
  /\ pc \in ArrivalPcs
  /\ Len(handled) + Len(queue) < MaxFairEvents
  /\ \E st \in { XR_SESSION_STATE_READY, XR_SESSION_STATE_FOCUSED, XR_SESSION_STATE_EXITING } :
       queue' = Append(queue, Event(XR_TYPE_EVENT_DATA_SESSION_STATE_CHANGED, m_Session, st))
  /\ pass' = IF pc = "PollEvents" THEN [pass EXCEPT !.added = TRUE] ELSE pass
  /\ UNCHANGED <<pc, flags, members, locals, history, frameCalls, iterPasses>>

\* The runtime queues a notification of any kind the switch can see.
RuntimeQueuesAnyKind ==
  /\ pc \in ArrivalPcs
  /\ Len(handled) + Len(queue) < MaxAnyKindEvents
  /\ \E ev \in XrEventDataBuffer : queue' = Append(queue, ev)
  /\ pass' = IF pc = "PollEvents" THEN [pass EXCEPT !.added = TRUE] ELSE pass
  /\ UNCHANGED <<pc, flags, members, locals, history,
                 frameCalls, iterPasses>>


\* ------------------------------------------------------------------ Run: startup
\* A creation step of Run: the call is logged, and a failed check stops the run.
Startup(here, next) ==
  /\ pc = here
  /\ lifeCalls' = Append(lifeCalls, here)
  /\ \E ok \in BOOLEAN : pc' = IF OPENXR_CHECK(ok) THEN next ELSE "aborted"
  /\ UNCHANGED <<flags, queue, locals, handled, sessionCalls,
                 frameCalls, iterPasses, pass>>

CreateInstance ==
  Startup("CreateInstance", "CreateDebugMessenger") /\ UNCHANGED members

\* No checked call in CreateDebugMessenger.
CreateDebugMessenger ==
  /\ pc = "CreateDebugMessenger"
  /\ lifeCalls' = Append(lifeCalls, "CreateDebugMessenger")
  /\ pc' = "GetInstanceProperties"
  /\ UNCHANGED <<flags, members, queue, locals, handled,
                 sessionCalls, frameCalls, iterPasses, pass>>

GetInstanceProperties ==
  Startup("GetInstanceProperties", "GetSystemID") /\ UNCHANGED members

GetSystemID ==
  Startup("GetSystemID", "GetViewConfigurationViews") /\ UNCHANGED members

\* for (pref : preferences) if (std::find(supported, pref) != end) { current = pref; break; }
RECURSIVE PickFirstSupported(_, _, _)
PickFirstSupported(preferences, supported, current) ==
  IF preferences = <<>> THEN current
  ELSE IF Head(preferences) \in supported THEN Head(preferences)
  ELSE PickFirstSupported(Tail(preferences), supported, current)

\* Mutant of DefaultIfUnset: the default replaces whatever was picked.
DefaultIfUnset_Always(current, unset, default) == default

\* if (current == MAX_ENUM) { log; current = default; }
DefaultIfUnset(current, unset, default) == IF current = unset THEN default ELSE current

\* The view configurations the runtime of Spec enumerates (a stereo headset).
HeadsetViewConfigurations == { { XR_VIEW_CONFIGURATION_TYPE_PRIMARY_STEREO } }

\* GetViewConfigurationViews with a runtime that enumerates one of the given
\* sets of view configurations: the first preferred one that is supported is
\* picked, PRIMARY_STEREO if there is none, and m_viewConfigurationViews is
\* resized to the MaxViews views the runtime reports for it.
GetViewConfigurationViewsFrom(enumerations) ==
  /\ Startup("GetViewConfigurationViews", "GetEnvironmentBlendModes")
  /\ \E supported \in enumerations :
       IF pc' = "aborted"
       THEN UNCHANGED <<m_viewConfigurations, m_viewConfiguration, m_viewConfigurationViews>>
       ELSE /\ m_viewConfigurations' = supported
            /\ m_viewConfiguration' =
                 DefaultIfUnset(
                   PickFirstSupported(m_applicationViewConfigurations, supported,
                                      m_viewConfiguration),
                   XR_VIEW_CONFIGURATION_TYPE_MAX_ENUM,
                   XR_VIEW_CONFIGURATION_TYPE_PRIMARY_STEREO)
            /\ m_viewConfigurationViews' = MaxViews
  /\ UNCHANGED <<m_applicationViewConfigurations, blendMode, swapchains, enumeration>>

GetViewConfigurationViews == GetViewConfigurationViewsFrom(HeadsetViewConfigurations)

\* The blend modes the runtime of Spec enumerates (an opaque display).
HeadsetEnvironmentBlendModes == { { XR_ENVIRONMENT_BLEND_MODE_OPAQUE } }

\* GetEnvironmentBlendModes with a runtime that enumerates one of the given
\* sets of blend modes.
GetEnvironmentBlendModesFrom(enumerations) ==
  /\ Startup("GetEnvironmentBlendModes", "CreateSession")
  /\ \E supported \in enumerations :
       IF pc' = "aborted"
       THEN UNCHANGED <<m_environmentBlendModes, m_environmentBlendMode>>
       ELSE /\ m_environmentBlendModes' = supported
            /\ m_environmentBlendMode' =
                 DefaultIfUnset(
                   PickFirstSupported(m_applicationEnvironmentBlendModes, supported,
                                      m_environmentBlendMode),
                   XR_ENVIRONMENT_BLEND_MODE_MAX_ENUM,
                   XR_ENVIRONMENT_BLEND_MODE_OPAQUE)
  /\ UNCHANGED <<m_applicationEnvironmentBlendModes, viewConfig, swapchains, enumeration>>

GetEnvironmentBlendModes == GetEnvironmentBlendModesFrom(HeadsetEnvironmentBlendModes)

\* A runtime that may enumerate any set of view configurations / blend modes.
GetViewConfigurationViews_AnyRuntime ==
  GetViewConfigurationViewsFrom(SUBSET XrViewConfigurationType)

GetEnvironmentBlendModes_AnyRuntime ==
  GetEnvironmentBlendModesFrom(SUBSET XrEnvironmentBlendMode)

CreateSession ==
  Startup("CreateSession", "CreateReferenceSpace") /\ UNCHANGED members

CreateReferenceSpace ==
  Startup("CreateReferenceSpace", "CreateSwapchains") /\ UNCHANGED members

\* A call that creates or destroys a swapchain or an image view, as logged.
ResourceCall(name, kind, v, image) ==
  [call |-> name, swapchain |-> kind, view |-> v, image |-> image]

\* The calls of these that are made inside OPENXR_CHECK.
CheckedResourceCall(c) ==
  c.call \in { "xrEnumerateSwapchainFormats", "xrCreateSwapchain",
               "xrEnumerateSwapchainImages", "xrDestroySwapchain" }

\* Mutant of CallsMade: the calls after a failed check are made all the same.
CallsMade_All(calls, failAt) == calls

\* The calls a function makes when the check of its call number failAt fails
\* (0: none fails): the statements after a failed check are not reached.
CallsMade(calls, failAt) == IF failAt = 0 THEN calls ELSE SubSeq(calls, 1, failAt)

\* A default-constructed SwapchainInfo.
XR_NULL_HANDLE == << "XR_NULL_HANDLE" >>
SwapchainInfo == [swapchain |-> XR_NULL_HANDLE, imageViews |-> <<>>]

\* One iteration of the loop of CreateSwapchains: the color and the depth
\* swapchain of view v, their images (each enumeration is a call that asks
\* for the count and a call that fills the array; the runtime answers both
\* with the same count), and one image view per image.
ViewCreateCalls(v, colorSwapchainImageCount, depthSwapchainImageCount) ==
  << ResourceCall("xrCreateSwapchain", "color", v, -1),
     ResourceCall("xrCreateSwapchain", "depth", v, -1),
     ResourceCall("xrEnumerateSwapchainImages", "color", v, colorSwapchainImageCount),
     ResourceCall("xrEnumerateSwapchainImages", "color", v, colorSwapchainImageCount),
     ResourceCall("xrEnumerateSwapchainImages", "depth", v, depthSwapchainImageCount),
     ResourceCall("xrEnumerateSwapchainImages", "depth", v, depthSwapchainImageCount) >>
  \o [j \in 1..colorSwapchainImageCount |-> ResourceCall("CreateImageView", "color", v, j - 1)]
  \o [j \in 1..depthSwapchainImageCount |-> ResourceCall("CreateImageView", "depth", v, j - 1)]

\* for (size_t i = 0; i < m_viewConfigurationViews.size(); i++)
RECURSIVE CreateCallsFrom(_, _, _)
CreateCallsFrom(v, n, counts) ==
  IF v >= n THEN <<>>
  ELSE ViewCreateCalls(v, counts[<<"color", v>>], counts[<<"depth", v>>])
         \o CreateCallsFrom(v + 1, n, counts)

\* The calls of a CreateSwapchains in which no check fails.
CreateSwapchainsCalls(n, counts) ==
  << ResourceCall("xrEnumerateSwapchainFormats", "none", -1, -1),
     ResourceCall("xrEnumerateSwapchainFormats", "none", -1, -1) >>
    \o CreateCallsFrom(0, n, counts)

\* The swapchains of n views, by kind and view.
SwapchainIds(n) == { "color", "depth" } \X (0..(n - 1))

\* m_colorSwapchainInfos / m_depthSwapchainInfos after the given calls: the
\* vector is resized to n, a created swapchain has its handle, and each
\* created image view is pushed back.
SwapchainInfosAfter(kind, n, calls) ==
  [v1 \in 1..n |->
     [swapchain |->
        IF \E k \in DOMAIN calls : calls[k] = ResourceCall("xrCreateSwapchain", kind, v1 - 1, -1)
        THEN << kind, v1 - 1 >> ELSE XR_NULL_HANDLE,
      imageViews |->
        [j \in 1..Cardinality({ k \in DOMAIN calls :
                                  /\ calls[k].call = "CreateImageView"
                                  /\ calls[k].swapchain = kind
                                  /\ calls[k].view = v1 - 1 })
           |-> << kind, v1 - 1, j - 1 >>]]]

\* CreateSwapchains against a runtime that gives each swapchain one of the
\* given numbers of images; a failed check stops the run at that call.
CreateSwapchainsWith(imageCounts) ==
  /\ pc = "CreateSwapchains"
  /\ lifeCalls' = Append(lifeCalls, "CreateSwapchains")
  /\ \E counts \in [SwapchainIds(m_viewConfigurationViews) -> imageCounts] :
       LET calls == CreateSwapchainsCalls(m_viewConfigurationViews, counts)
       IN  \E failAt \in {0} \cup { k \in DOMAIN calls : CheckedResourceCall(calls[k]) } :
             LET made == CallsMade(calls, failAt)
                 succeeded == IF failAt = 0 THEN calls ELSE SubSeq(calls, 1, failAt - 1)
             IN  /\ swapchainCalls' = swapchainCalls \o made
                 /\ m_colorSwapchainInfos' =
                      SwapchainInfosAfter("color", m_viewConfigurationViews, succeeded)
                 /\ m_depthSwapchainInfos' =
                      SwapchainInfosAfter("depth", m_viewConfigurationViews, succeeded)
                 /\ pc' = IF OPENXR_CHECK(failAt = 0) THEN "while" ELSE "aborted"
  /\ UNCHANGED <<flags, config, enumeration, queue, locals, handled, sessionCalls,
                 frameCalls, iterPasses, pass>>

\* The runtime of Spec gives every swapchain MaxImages images.
CreateSwapchains == CreateSwapchainsWith({ MaxImages })

\* A runtime that gives each swapchain any number of images up to MaxImages.
CreateSwapchains_AnyRuntime == CreateSwapchainsWith(1..MaxImages)

\* ------------------------------------------------------------------ Run: main loop
\* Mutant of WhileTarget: teardown starts at DestroyReferenceSpace.
WhileTarget_SkipsSwapchains(app) == IF app THEN "PollEvents" ELSE "DestroyReferenceSpace"

\* while (m_applicationRunning): the next statement of Run.
WhileTarget(app) == IF app THEN "PollEvents" ELSE "DestroySwapchains"

\* The loop test; entering the body starts a drain pass.
While ==
  /\ pc = "while"
  /\ pc' = WhileTarget(m_applicationRunning)
  /\ iterPasses' = 0
  /\ pass' = IF pc' = "PollEvents"
             THEN [start |-> Len(queue), handled |-> 0, added |-> FALSE, last |-> "none"]
             ELSE NoPass
  /\ UNCHANGED <<flags, members, queue, locals, history, frameCalls>>

\* Mutant of IfTarget: RenderFrame is called whatever m_sessionRunning is.
IfTarget_AlwaysRenders(run) == "xrWaitFrame"

\* if (m_sessionRunning) RenderFrame();
IfTarget(run) == IF run THEN "xrWaitFrame" ELSE "while"

IfSessionRunning ==
  /\ pc = "if_sessionRunning"
  /\ pc' = IfTarget(m_sessionRunning)
  /\ pass' = NoPass
  /\ UNCHANGED <<flags, members, queue, locals, history,
                 frameCalls, iterPasses>>

\* ------------------------------------------------------------------ Run: teardown
Teardown(here, next) ==
  /\ pc = here
  /\ lifeCalls' = Append(lifeCalls, here)
  /\ \E ok \in BOOLEAN : pc' = IF OPENXR_CHECK(ok) THEN next ELSE "aborted"
  /\ UNCHANGED <<flags, config, enumeration, queue, locals, handled,
                 sessionCalls, frameCalls, iterPasses, pass>>

\* Mutant of ViewDestroyCalls: the swapchains are destroyed before their
\* image views.
ViewDestroyCalls_SwapchainsFirst(v, colorSwapchainInfo, depthSwapchainInfo) ==
  << ResourceCall("FreeSwapchainImageData", "color", v, -1),
     ResourceCall("FreeSwapchainImageData", "depth", v, -1),
     ResourceCall("xrDestroySwapchain", "color", v, -1),
     ResourceCall("xrDestroySwapchain", "depth", v, -1) >>
  \o [j \in 1..Len(colorSwapchainInfo.imageViews) |->
        ResourceCall("DestroyImageView", "color", v, colorSwapchainInfo.imageViews[j][3])]
  \o [j \in 1..Len(depthSwapchainInfo.imageViews) |->
        ResourceCall("DestroyImageView", "depth", v, depthSwapchainInfo.imageViews[j][3])]

\* One iteration of the loop of DestroySwapchains: the image views of the
\* color and of the depth swapchain of view v, their image data, then the
\* two swapchains.
ViewDestroyCalls(v, colorSwapchainInfo, depthSwapchainInfo) ==
  [j \in 1..Len(colorSwapchainInfo.imageViews) |->
     ResourceCall("DestroyImageView", "color", v, colorSwapchainInfo.imageViews[j][3])]
  \o [j \in 1..Len(depthSwapchainInfo.imageViews) |->
        ResourceCall("DestroyImageView", "depth", v, depthSwapchainInfo.imageViews[j][3])]
  \o << ResourceCall("FreeSwapchainImageData", "color", v, -1),
        ResourceCall("FreeSwapchainImageData", "depth", v, -1),
        ResourceCall("xrDestroySwapchain", "color", v, -1),
        ResourceCall("xrDestroySwapchain", "depth", v, -1) >>

\* for (size_t i = 0; i < m_viewConfigurationViews.size(); i++)
RECURSIVE DestroyCallsFrom(_, _)
DestroyCallsFrom(v, n) ==
  IF v >= n THEN <<>>
  ELSE ViewDestroyCalls(v, m_colorSwapchainInfos[v + 1], m_depthSwapchainInfos[v + 1])
         \o DestroyCallsFrom(v + 1, n)

\* DestroySwapchains; a failed check stops the run at that call.
DestroySwapchains ==
  /\ pc = "DestroySwapchains"
  /\ lifeCalls' = Append(lifeCalls, "DestroySwapchains")
  /\ LET calls == DestroyCallsFrom(0, m_viewConfigurationViews)
     IN  \E failAt \in {0} \cup { k \in DOMAIN calls : CheckedResourceCall(calls[k]) } :
           /\ swapchainCalls' =
                swapchainCalls \o CallsMade(calls, failAt)
           /\ pc' = IF OPENXR_CHECK(failAt = 0) THEN "DestroyReferenceSpace" ELSE "aborted"
  /\ UNCHANGED <<flags, config, enumeration, m_colorSwapchainInfos, m_depthSwapchainInfos, queue,
                 locals, handled, sessionCalls, frameCalls, iterPasses, pass>>

DestroyReferenceSpace == Teardown("DestroyReferenceSpace", "DestroySession") /\ UNCHANGED swapchains

DestroySession == Teardown("DestroySession", "DestroyDebugMessenger") /\ UNCHANGED swapchains

\* No checked call in DestroyDebugMessenger.
DestroyDebugMessenger ==
  /\ pc = "DestroyDebugMessenger"
  /\ lifeCalls' = Append(lifeCalls, "DestroyDebugMessenger")
  /\ pc' = "DestroyInstance"
  /\ UNCHANGED <<flags, members, queue, locals, handled,
                 sessionCalls, frameCalls, iterPasses, pass>>

DestroyInstance == Teardown("DestroyInstance", "done") /\ UNCHANGED swapchains


\* ------------------------------------------------------------------ RenderFrame
\* A runtime call as it is logged; swapchain calls name the swapchain.
Call(name) == [call |-> name, swapchain |-> "none", view |-> -1]
SwapchainCall(name, kind, v) == [call |-> name, swapchain |-> kind, view |-> v]

\* The locals of RenderFrame and RenderLayer other than the ones named.
RestOfLocals(changed) ==
  /\ IF "frameState" \in changed THEN TRUE ELSE UNCHANGED frameState
  /\ IF "rendered" \in changed THEN TRUE ELSE UNCHANGED rendered
  /\ IF "layers" \in changed THEN TRUE ELSE UNCHANGED layers
  /\ IF "layerProjection" \in changed THEN TRUE ELSE UNCHANGED layerProjection
  /\ IF "layerProjectionViews" \in changed THEN TRUE ELSE UNCHANGED layerProjectionViews
  /\ IF "viewCount" \in changed THEN TRUE ELSE UNCHANGED viewCount
  /\ IF "i" \in changed THEN TRUE ELSE UNCHANGED i
  /\ IF "result" \in changed THEN TRUE ELSE UNCHANGED result
  /\ IF "acquired" \in changed THEN TRUE ELSE UNCHANGED acquired
  /\ IF "colorImageIndex" \in changed THEN TRUE ELSE UNCHANGED colorImageIndex
  /\ IF "depthImageIndex" \in changed THEN TRUE ELSE UNCHANGED depthImageIndex
  /\ IF "clearedImageViews" \in changed THEN TRUE ELSE UNCHANGED clearedImageViews
  /\ IF "frameEndInfo" \in changed THEN TRUE ELSE UNCHANGED frameEndInfo

\* What no step of RenderFrame touches.
FrameFrame ==
  UNCHANGED <<flags, members, queue, handled, sessionCalls,
              lifeCalls, iterPasses, pass>>

\* xrWaitFrame(m_Session, &frameWaitInfo, &frameState)
xrWaitFrame ==
  /\ pc = "xrWaitFrame"
  /\ frameCalls' = Append(frameCalls, Call("xrWaitFrame"))
  /\ \E ok \in BOOLEAN, shouldRender \in BOOLEAN :
       /\ pc' = IF OPENXR_CHECK(ok) THEN "xrBeginFrame" ELSE "aborted"
       /\ frameState' = IF ok THEN shouldRender ELSE frameState
  /\ RestOfLocals({"frameState"})
  /\ FrameFrame

\* xrBeginFrame(m_Session, &frameBeginInfo)
xrBeginFrame ==
  /\ pc = "xrBeginFrame"
  /\ frameCalls' = Append(frameCalls, Call("xrBeginFrame"))
  /\ \E ok \in BOOLEAN : pc' = IF OPENXR_CHECK(ok) THEN "RenderFrame_decide" ELSE "aborted"
  /\ RestOfLocals({})
  /\ FrameFrame

\* bool sessionActive = (m_SessionState == SYNCHRONIZED || VISIBLE || FOCUSED)
SessionActive(st) ==
  st \in { XR_SESSION_STATE_SYNCHRONIZED, XR_SESSION_STATE_VISIBLE,
           XR_SESSION_STATE_FOCUSED }

\* Mutant of ShouldRenderLayer: frameState.shouldRender is not consulted.
ShouldRenderLayer_IgnoresShouldRender(st, shouldRender) == SessionActive(st)

\* if (sessionActive && frameState.shouldRender)
ShouldRenderLayer(st, shouldRender) == SessionActive(st) /\ shouldRender

\* Mutant of AfterDecision: a frame that renders nothing returns at once.
AfterDecision_SkipsEndFrame(render) ==
  IF render THEN "xrLocateViews" ELSE "RenderFrame_return"

\* Where RenderFrame goes after the test: into RenderLayer, or on to xrEndFrame.
AfterDecision(render) == IF render THEN "xrLocateViews" ELSE "xrEndFrame"

\* bool rendered = false; RenderLayerInfo renderLayerInfo; and the test that
\* decides whether RenderLayer is called.
RenderFrame_decide ==
  /\ pc = "RenderFrame_decide"
  /\ rendered' = FALSE
  /\ layers' = <<>>
  /\ layerProjection' = 0
  /\ layerProjectionViews' = <<>>
  /\ pc' = AfterDecision(ShouldRenderLayer(m_SessionState, frameState))
  /\ RestOfLocals({"rendered", "layers", "layerProjection", "layerProjectionViews"})
  /\ UNCHANGED frameCalls
  /\ FrameFrame

\* Mutant of PushLayer: the layer is pushed whatever RenderLayer returned.
PushLayer_Always(r, ls) == Append(ls, "layerProjection")

\* if (rendered) renderLayerInfo.layers.push_back(&renderLayerInfo.layerProjection)
PushLayer(r, ls) == IF r THEN Append(ls, "layerProjection") ELSE ls

\* for (uint32_t i = 0; i < viewCount; i++): where the loop test leads.
ViewLoop(idx, count) == IF idx < count THEN "xrAcquireColor" ELSE "RenderLayer_return"

\* A default-constructed XrCompositionLayerProjectionView.
EmptyProjectionView == [swapchain |-> "none", view |-> -1]

\* xrLocateViews and what follows it: on failure RenderLayer returns false
\* and RenderFrame goes on to xrEndFrame; on success layerProjectionViews is
\* resized to viewCount and the per-view loop starts.
xrLocateViews ==
  /\ pc = "xrLocateViews"
  /\ frameCalls' = Append(frameCalls, Call("xrLocateViews"))
  /\ \E res \in { XR_SUCCESS, XR_ERROR }, n \in 0..m_viewConfigurationViews :
       /\ result' = res
       /\ IF res # XR_SUCCESS
          THEN /\ rendered' = FALSE
               /\ layers' = PushLayer(rendered', layers)
               /\ pc' = "xrEndFrame"
               /\ UNCHANGED <<viewCount, layerProjectionViews, i>>
          ELSE /\ viewCount' = n
               /\ layerProjectionViews' = [k \in 1..n |-> EmptyProjectionView]
               /\ i' = 0
               /\ pc' = ViewLoop(0, n)
               /\ UNCHANGED <<rendered, layers>>
  /\ RestOfLocals({"result", "rendered", "layers", "viewCount",
                   "layerProjectionViews", "i"})
  /\ FrameFrame

\* A checked swapchain call on the swapchain of the given kind of view i.
SwapchainStep(here, name, kind, next) ==
  /\ pc = here
  /\ frameCalls' = Append(frameCalls, SwapchainCall(name, kind, i))
  /\ \E ok \in BOOLEAN : pc' = IF OPENXR_CHECK(ok) THEN next ELSE "aborted"
  /\ FrameFrame

\* The images of a swapchain, by index.
SwapchainImages(swapchainInfo) == 0..(Len(swapchainInfo.imageViews) - 1)

\* The runtime of Spec hands out the first image of a swapchain.
FirstImage == { 0 }

\* uint32_t colorImageIndex = 0; uint32_t depthImageIndex = 0; and
\* xrAcquireSwapchainImage on the color swapchain of view i; the runtime
\* hands out one of the given images.
xrAcquireColorOf(images) ==
  /\ SwapchainStep("xrAcquireColor", "xrAcquireSwapchainImage", "color", "xrAcquireDepth")
  /\ acquired' = acquired \cup { <<"color", i>> }
  /\ \E image \in images :
       colorImageIndex' = IF pc' = "aborted" THEN 0 ELSE image
  /\ depthImageIndex' = 0
  /\ RestOfLocals({"acquired", "colorImageIndex", "depthImageIndex"})

xrAcquireDepthOf(images) ==
  /\ SwapchainStep("xrAcquireDepth", "xrAcquireSwapchainImage", "depth", "xrWaitColor")
  /\ acquired' = acquired \cup { <<"depth", i>> }
  /\ \E image \in images :
       depthImageIndex' = IF pc' = "aborted" THEN 0 ELSE image
  /\ RestOfLocals({"acquired", "depthImageIndex"})

xrAcquireColor == xrAcquireColorOf(FirstImage)

xrAcquireDepth == xrAcquireDepthOf(FirstImage)

\* A runtime that hands out any image of the swapchain.
xrAcquireColor_AnyImage ==
  xrAcquireColorOf(SwapchainImages(m_colorSwapchainInfos[i + 1]))

xrAcquireDepth_AnyImage ==
  xrAcquireDepthOf(SwapchainImages(m_depthSwapchainInfos[i + 1]))

xrWaitColor ==
  /\ SwapchainStep("xrWaitColor", "xrWaitSwapchainImage", "color", "xrWaitDepth")
  /\ RestOfLocals({})

xrWaitDepth ==
  /\ SwapchainStep("xrWaitDepth", "xrWaitSwapchainImage", "depth", "Clear")
  /\ RestOfLocals({})

\* Mutant of ClearedImageView: the first image view is cleared whichever
\* image was acquired.
ClearedImageView_First(swapchainInfo, imageIndex) == swapchainInfo.imageViews[1]

\* colorSwapchainInfo.imageViews[colorImageIndex]
ClearedImageView(swapchainInfo, imageIndex) == swapchainInfo.imageViews[imageIndex + 1]

\* layerProjectionViews[i] is filled in and both images are cleared.
Clear ==
  /\ pc = "Clear"
  /\ layerProjectionViews' =
       [layerProjectionViews EXCEPT ![i + 1] = [swapchain |-> "color", view |-> i]]
  /\ frameCalls' = frameCalls \o << SwapchainCall("ClearColor", "color", i),
                                    SwapchainCall("ClearDepth", "depth", i) >>
  /\ clearedImageViews' = clearedImageViews \o
       << ClearedImageView(m_colorSwapchainInfos[i + 1], colorImageIndex),
          ClearedImageView(m_depthSwapchainInfos[i + 1], depthImageIndex) >>
  /\ pc' = "xrReleaseColor"
  /\ RestOfLocals({"layerProjectionViews", "clearedImageViews"})
  /\ FrameFrame

xrReleaseColor ==
  /\ SwapchainStep("xrReleaseColor", "xrReleaseSwapchainImage", "color", "xrReleaseDepth")
  /\ acquired' = acquired \ { <<"color", i>> }
  /\ RestOfLocals({"acquired"})

\* The last call of the loop body, then i++ and the loop test.
xrReleaseDepth ==
  /\ pc = "xrReleaseDepth"
  /\ frameCalls' = Append(frameCalls, SwapchainCall("xrReleaseSwapchainImage", "depth", i))
  /\ \E ok \in BOOLEAN :
       pc' = IF OPENXR_CHECK(ok) THEN ViewLoop(i + 1, viewCount) ELSE "aborted"
  /\ acquired' = acquired \ { <<"depth", i>> }
  /\ i' = IF pc' = "aborted" THEN i ELSE i + 1
  /\ RestOfLocals({"acquired", "i"})
  /\ FrameFrame

\* RenderLayer fills layerProjection and returns true; RenderFrame pushes it.
RenderLayer_return ==
  /\ pc = "RenderLayer_return"
  /\ layerProjection' = Len(layerProjectionViews)
  /\ rendered' = TRUE
  /\ layers' = PushLayer(rendered', layers)
  /\ pc' = "xrEndFrame"
  /\ RestOfLocals({"layerProjection", "rendered", "layers"})
  /\ UNCHANGED frameCalls
  /\ FrameFrame

\* frameEndInfo.layerCount = layers.size(); xrEndFrame(m_Session, &frameEndInfo)
xrEndFrame ==
  /\ pc = "xrEndFrame"
  /\ frameEndInfo' = [layerCount |-> Len(layers), layers |-> layers,
                      views |-> layerProjectionViews]
  /\ frameCalls' = Append(frameCalls, Call("xrEndFrame"))
  /\ \E ok \in BOOLEAN : pc' = IF OPENXR_CHECK(ok) THEN "RenderFrame_return" ELSE "aborted"
  /\ RestOfLocals({"frameEndInfo"})
  /\ FrameFrame

\* RenderFrame returns: its locals go out of scope and Run loops.
RenderFrame_return ==
  /\ pc = "RenderFrame_return"
  /\ pc' = "while"
  /\ frameState' = FALSE
  /\ rendered' = FALSE
  /\ layers' = <<>>
  /\ layerProjection' = 0
  /\ layerProjectionViews' = <<>>
  /\ viewCount' = 0
  /\ i' = 0
  /\ result' = "none"
  /\ acquired' = {}
  /\ colorImageIndex' = 0
  /\ depthImageIndex' = 0
  /\ clearedImageViews' = <<>>
  /\ frameEndInfo' = NoFrameEnd
  /\ frameCalls' = <<>>
  /\ FrameFrame

\* ------------------------------------------------------------------ specification
Next ==
  \/ CreateInstance
  \/ CreateDebugMessenger
  \/ GetInstanceProperties
  \/ GetSystemID
  \/ GetViewConfigurationViews
  \/ GetEnvironmentBlendModes
  \/ CreateSession
  \/ CreateReferenceSpace
  \/ CreateSwapchains
  \/ While
  \/ PollEvents_Handle
  \/ PollEvents_Return
  \/ IfSessionRunning
  \/ xrWaitFrame
  \/ xrBeginFrame
  \/ RenderFrame_decide
  \/ xrLocateViews
  \/ xrAcquireColor
  \/ xrAcquireDepth
  \/ xrWaitColor
  \/ xrWaitDepth
  \/ Clear
  \/ xrReleaseColor
  \/ xrReleaseDepth
  \/ RenderLayer_return
  \/ xrEndFrame
  \/ RenderFrame_return
  \/ DestroySwapchains
  \/ DestroyReferenceSpace
  \/ DestroySession
  \/ DestroyDebugMessenger
  \/ DestroyInstance
  \/ RuntimeQueuesEvent

Spec == Init /\ [][Next]_vars

\* The same program with a runtime that queues notifications of every kind.
NextAnyKind ==
  \/ CreateInstance
  \/ CreateDebugMessenger
  \/ GetInstanceProperties
  \/ GetSystemID
  \/ GetViewConfigurationViews
  \/ GetEnvironmentBlendModes
  \/ CreateSession
  \/ CreateReferenceSpace
  \/ CreateSwapchains
  \/ While
  \/ PollEvents_Handle
  \/ PollEvents_Return
  \/ IfSessionRunning
  \/ xrWaitFrame
  \/ xrBeginFrame
  \/ RenderFrame_decide
  \/ xrLocateViews
  \/ xrAcquireColor
  \/ xrAcquireDepth
  \/ xrWaitColor
  \/ xrWaitDepth
  \/ Clear
  \/ xrReleaseColor
  \/ xrReleaseDepth
  \/ RenderLayer_return
  \/ xrEndFrame
  \/ RenderFrame_return
  \/ DestroySwapchains
  \/ DestroyReferenceSpace
  \/ DestroySession
  \/ DestroyDebugMessenger
  \/ DestroyInstance
  \/ RuntimeQueuesAnyKind

SpecAnyKind == Init /\ [][NextAnyKind]_vars

NextFair ==
  \/ CreateInstance
  \/ CreateDebugMessenger
  \/ GetInstanceProperties
  \/ GetSystemID
  \/ GetViewConfigurationViews
  \/ GetEnvironmentBlendModes
  \/ CreateSession
  \/ CreateReferenceSpace
  \/ CreateSwapchains
  \/ While
  \/ PollEvents_Handle
  \/ PollEvents_Return
  \/ IfSessionRunning
  \/ xrWaitFrame
  \/ xrBeginFrame
  \/ RenderFrame_decide
  \/ xrLocateViews
  \/ xrAcquireColor
  \/ xrAcquireDepth
  \/ xrWaitColor
  \/ xrWaitDepth
  \/ Clear
  \/ xrReleaseColor
  \/ xrReleaseDepth
  \/ RenderLayer_return
  \/ xrEndFrame
  \/ RenderFrame_return
  \/ DestroySwapchains
  \/ DestroyReferenceSpace
  \/ DestroySession
  \/ DestroyDebugMessenger
  \/ DestroyInstance
  \/ RuntimeQueuesFairly

\* A step of the control thread (the runtime only ever lengthens the queue).
ProgramStep == NextFair /\ Len(queue') <= Len(queue)

\* Every runtime call returns: the control thread keeps taking steps.
FairSpec == Init /\ [][NextFair]_vars /\ WF_vars(ProgramStep)

\* Preference lists: up to MaxPrefs distinct values, in priority order.
PreferenceLists(values) ==
  { l \in UNION { [1..n -> values] : n \in 0..MaxPrefs } :
      \A a, b \in DOMAIN l : a # b => l[a] # l[b] }

\* Startup of Run for any preference lists, against a runtime that may
\* enumerate any set of view configurations and of blend modes.
InitNegotiation ==
  /\ m_applicationViewConfigurations \in PreferenceLists(XrViewConfigurationType)
  /\ m_applicationEnvironmentBlendModes \in PreferenceLists(XrEnvironmentBlendMode)
  /\ runtimeItems = <<>>
  /\ InitMembers

NextNegotiation ==
  \/ CreateInstance
  \/ CreateDebugMessenger
  \/ GetInstanceProperties
  \/ GetSystemID
  \/ GetViewConfigurationViews_AnyRuntime
  \/ GetEnvironmentBlendModes_AnyRuntime
  \/ CreateSession
  \/ CreateReferenceSpace
  \/ CreateSwapchains

SpecNegotiation == InitNegotiation /\ [][NextNegotiation]_vars

\* The program against a runtime that runs the session and hands out any
\* image of a swapchain.
NextFrames ==
  \/ CreateInstance
  \/ CreateDebugMessenger
  \/ GetInstanceProperties
  \/ GetSystemID
  \/ GetViewConfigurationViews
  \/ GetEnvironmentBlendModes
  \/ CreateSession
  \/ CreateReferenceSpace
  \/ CreateSwapchains
  \/ While
  \/ PollEvents_Handle
  \/ PollEvents_Return
  \/ IfSessionRunning
  \/ xrWaitFrame
  \/ xrBeginFrame
  \/ RenderFrame_decide
  \/ xrLocateViews
  \/ xrAcquireColor_AnyImage
  \/ xrAcquireDepth_AnyImage
  \/ xrWaitColor
  \/ xrWaitDepth
  \/ Clear
  \/ xrReleaseColor
  \/ xrReleaseDepth
  \/ RenderLayer_return
  \/ xrEndFrame
  \/ RenderFrame_return
  \/ DestroySwapchains
  \/ DestroyReferenceSpace
  \/ DestroySession
  \/ DestroyDebugMessenger
  \/ DestroyInstance
  \/ RuntimeRunsSession

SpecFrames == Init /\ [][NextFrames]_vars

\* ------------------------------------------------------------------ two-call enumeration
\* A value-initialised element of a vector.
ValueInitialized == "0"

\* Mutant of Resize: the n elements are added to the vector.
Resize_Grows(vector, n) == vector \o [k \in 1..n |-> ValueInitialized]

\* std::vector::resize(n): the first n elements are kept, new ones are
\* value-initialised.
Resize(vector, n) ==
  [k \in 1..n |-> IF k <= Len(vector) THEN vector[k] ELSE ValueInitialized]

XR_ERROR_SIZE_INSUFFICIENT == "XR_ERROR_SIZE_INSUFFICIENT"

\* An xrEnumerate* call of the runtime on the array items: with capacity 0
\* it reports the count only; with a capacity that is too small it fails;
\* otherwise it writes the items to the front of the output array.
xrEnumerate(items, capacityInput, output) ==
  IF capacityInput = 0
  THEN [result |-> XR_SUCCESS, countOutput |-> Len(items), output |-> output]
  ELSE IF capacityInput < Len(items)
  THEN [result |-> XR_ERROR_SIZE_INSUFFICIENT, countOutput |-> Len(items), output |-> output]
  ELSE [result |-> XR_SUCCESS, countOutput |-> Len(items),
        output |-> [k \in DOMAIN output |-> IF k <= Len(items) THEN items[k] ELSE output[k]]]

\* uint32_t count = 0; xrEnumerate(0, &count, nullptr); vector.resize(count);
\* xrEnumerate(count, &count, vector.data()): one run of the protocol on the
\* given vector. failAt is the call the runtime fails (0: none).
TwoCallEnumeration(items, vector, failAt) ==
  LET first == xrEnumerate(items, 0, vector)
      sized == Resize(vector, first.countOutput)
      second == xrEnumerate(items, first.countOutput, sized)
  IN  IF ~OPENXR_CHECK(failAt # 1 /\ first.result = XR_SUCCESS)
      THEN [fatal |-> TRUE, count |-> 0, vector |-> vector]
      ELSE IF ~OPENXR_CHECK(failAt # 2 /\ second.result = XR_SUCCESS)
      THEN [fatal |-> TRUE, count |-> first.countOutput, vector |-> sized]
      ELSE [fatal |-> FALSE, count |-> second.countOutput, vector |-> second.output]

\* The application runs the protocol on its vector; the runtime's array is
\* the same for every run.
Enumerate ==
  /\ pc # "aborted"
  /\ Len(enumRuns) < MaxRuns
  /\ \E failAt \in 0..2 :
       LET run == TwoCallEnumeration(runtimeItems, enumBuffer, failAt)
       IN  /\ enumBuffer' = run.vector
           /\ enumRuns' = IF run.fatal THEN enumRuns
                          ELSE Append(enumRuns, [count |-> run.count, vector |-> run.vector])
           /\ pc' = IF run.fatal THEN "aborted" ELSE pc
  /\ UNCHANGED <<flags, config, swapchains, runtimeItems, queue, locals, history,
                 frameCalls, iterPasses, pass>>

\* The arrays a capability query of the runtime can enumerate.
RuntimeArrays == UNION { [1..n -> XrEnvironmentBlendMode] : n \in 0..MaxItems }

InitEnumeration ==
  /\ m_applicationViewConfigurations =
       << XR_VIEW_CONFIGURATION_TYPE_PRIMARY_STEREO, XR_VIEW_CONFIGURATION_TYPE_PRIMARY_MONO >>
  /\ m_applicationEnvironmentBlendModes =
       << XR_ENVIRONMENT_BLEND_MODE_OPAQUE, XR_ENVIRONMENT_BLEND_MODE_ADDITIVE >>
  /\ runtimeItems \in RuntimeArrays
  /\ InitMembers

SpecEnumeration == InitEnumeration /\ [][Enumerate]_vars

\* A run in which no session is begun, against a runtime that gives each
\* swapchain any number of images: startup, the loop until the runtime ends
\* the run, and teardown.
NextSwapchains ==
  \/ CreateInstance
  \/ CreateDebugMessenger
  \/ GetInstanceProperties
  \/ GetSystemID
  \/ GetViewConfigurationViews
  \/ GetEnvironmentBlendModes
  \/ CreateSession
  \/ CreateReferenceSpace
  \/ CreateSwapchains_AnyRuntime
  \/ While
  \/ PollEvents_Handle
  \/ PollEvents_Return
  \/ IfSessionRunning
  \/ DestroySwapchains
  \/ DestroyReferenceSpace
  \/ DestroySession
  \/ DestroyDebugMessenger
  \/ DestroyInstance
  \/ RuntimeEndsRun

SpecSwapchains == Init /\ [][NextSwapchains]_vars


\* ------------------------------------------------------------------ properties
Ready == Event(XR_TYPE_EVENT_DATA_SESSION_STATE_CHANGED, m_Session, XR_SESSION_STATE_READY)
Synchronized ==
  Event(XR_TYPE_EVENT_DATA_SESSION_STATE_CHANGED, m_Session, XR_SESSION_STATE_SYNCHRONIZED)
Stopping ==
  Event(XR_TYPE_EVENT_DATA_SESSION_STATE_CHANGED, m_Session, XR_SESSION_STATE_STOPPING)
Exiting == Event(XR_TYPE_EVENT_DATA_SESSION_STATE_CHANGED, m_Session, XR_SESSION_STATE_EXITING)
LossPending ==
  Event(XR_TYPE_EVENT_DATA_SESSION_STATE_CHANGED, m_Session, XR_SESSION_STATE_LOSS_PENDING)
InstanceLossPending == Event(XR_TYPE_EVENT_DATA_INSTANCE_LOSS_PENDING, NoSession, NoState)

IsOwnedStateChange(ev) ==
  ev.type = XR_TYPE_EVENT_DATA_SESSION_STATE_CHANGED /\ ev.session = m_Session

OnlyOwnedStateChanges == \A k \in 1..Len(handled) : IsOwnedStateChange(handled[k])

\* A Ready was handled and no Stopping, Exiting or LossPending after the last one.
ReadyAndNotEndedSince ==
  \E r \in 1..Len(handled) :
    /\ handled[r] = Ready
    /\ \A k \in (r + 1)..Len(handled) : handled[k] \notin { Ready, Stopping, Exiting, LossPending }

\* C1: after any sequence of owned-session state-changed notifications has
\* been processed from the initial state, SessionRunning is true iff the
\* sequence contains a Ready and no Stopping, Exiting or LossPending follows
\* the last Ready.
C1_SessionRunningIffReadyLast ==
  (pc # "aborted" /\ OnlyOwnedStateChanges) => (m_sessionRunning <=> ReadyAndNotEndedSince)

C1_Witness ==
  /\ pc = "PollEvents"
  /\ handled = << Ready, Stopping, Ready >>
  /\ m_sessionRunning

\* C2: once an owned-session Exiting or LossPending notification has been
\* handled, ApplicationRunning and SessionRunning are both false, whatever
\* the flags were before.
C2_ExitingOrLossClearsBoth ==
  (handled # <<>> /\ Last(handled) \in { Exiting, LossPending })
    => (~m_applicationRunning /\ ~m_sessionRunning)

C2_Witness ==
  /\ pc = "PollEvents"
  /\ handled = << Ready, LossPending >>
  /\ ~m_applicationRunning
  /\ ~m_sessionRunning

\* This step calls xrWaitFrame, xrBeginFrame or xrEndFrame.
FrameCallMade ==
  /\ Len(frameCalls') = Len(frameCalls) + 1
  /\ frameCalls'[Len(frameCalls')].call \in { "xrWaitFrame", "xrBeginFrame", "xrEndFrame" }

InstanceLossHandled == \E k \in 1..Len(handled) : handled[k] = InstanceLossPending

\* C3: once an instance-loss-pending notification has been handled,
\* ApplicationRunning is false and no wait-frame, begin-frame or end-frame
\* call is made any more.
C3_NoFrameAfterInstanceLoss ==
  [][InstanceLossHandled => (~m_applicationRunning /\ ~FrameCallMade)]_vars

\* C4: whenever wait-frame, begin-frame or end-frame is invoked,
\* ApplicationRunning and SessionRunning are both true.
C4_FrameOnlyWhileBothRunning ==
  [][FrameCallMade => (m_applicationRunning /\ m_sessionRunning)]_vars

\* The session calls the handled notifications ask for, in their order.
RECURSIVE ExpectedSessionCalls(_)
ExpectedSessionCalls(h) ==
  IF h = <<>> THEN <<>>
  ELSE LET rest == ExpectedSessionCalls(Tail(h))
       IN  IF Head(h) = Ready THEN <<"xrBeginSession">> \o rest
           ELSE IF Head(h) = Stopping THEN <<"xrEndSession">> \o rest
           ELSE rest

\* C5: every owned-session Ready makes exactly one begin-session call and
\* every owned-session Stopping exactly one end-session call, in notification
\* order; [Ready] leaves SessionRunning true after one begin-session, and
\* [Ready, Synchronized, Stopping] makes begin-session then end-session once
\* each and ends with SessionRunning false and ApplicationRunning true.
C5_OneSessionCallPerNotification ==
  /\ sessionCalls = ExpectedSessionCalls(handled)
  /\ (pc # "aborted" /\ handled = << Ready >>)
       => (sessionCalls = << "xrBeginSession" >> /\ m_sessionRunning)
  /\ (pc # "aborted" /\ handled = << Ready, Synchronized, Stopping >>)
       => /\ sessionCalls = << "xrBeginSession", "xrEndSession" >>
          /\ ~m_sessionRunning
          /\ m_applicationRunning

C5_Witness ==
  /\ pc = "if_sessionRunning"
  /\ handled = << Ready, Synchronized, Stopping >>
  /\ sessionCalls = << "xrBeginSession", "xrEndSession" >>


\* Positions inside RenderLayer, inside RenderFrame after its test, and
\* inside RenderFrame.
RenderLayerPcs ==
  { "xrLocateViews", "xrAcquireColor", "xrAcquireDepth", "xrWaitColor",
    "xrWaitDepth", "Clear", "xrReleaseColor", "xrReleaseDepth", "RenderLayer_return" }
DecidedPcs == RenderLayerPcs \cup { "xrEndFrame", "RenderFrame_return" }
FramePcs == DecidedPcs \cup { "xrWaitFrame", "xrBeginFrame", "RenderFrame_decide" }

Called(name) == \E k \in DOMAIN frameCalls : frameCalls[k].call = name
Count(name) == Cardinality({ k \in DOMAIN frameCalls : frameCalls[k].call = name })

\* RenderLayer has been entered in the current frame.
RenderLayerRan == pc \in RenderLayerPcs \/ Called("xrLocateViews")

\* The spec's rendering eligibility, read off the program's variables.
Renderable ==
  /\ m_SessionState \in { XR_SESSION_STATE_SYNCHRONIZED, XR_SESSION_STATE_VISIBLE,
                          XR_SESSION_STATE_FOCUSED }
  /\ frameState = TRUE

\* C6: in every RenderFrame call the render step runs iff SessionState is
\* Synchronized, Visible or Focused and wait-frame reported shouldRender;
\* when that is false, end-frame is given a layer count of zero.
C6_RenderIffEligible ==
  /\ pc \in DecidedPcs => (RenderLayerRan <=> Renderable)
  /\ frameEndInfo # NoFrameEnd =>
       /\ RenderLayerRan <=> Renderable
       /\ ~Renderable => frameEndInfo.layerCount = 0

C6_Witness ==
  /\ pc = "RenderFrame_return"
  /\ m_SessionState = XR_SESSION_STATE_SYNCHRONIZED
  /\ frameState = TRUE
  /\ Called("xrAcquireSwapchainImage")
  /\ frameEndInfo.layerCount = 1

IsSwapchainCall(c) ==
  c.call \in { "xrAcquireSwapchainImage", "xrWaitSwapchainImage", "xrReleaseSwapchainImage" }

\* C7: a RenderFrame call makes wait-frame, begin-frame and end-frame once
\* each, in that order, with every swapchain call of the frame strictly
\* between begin-frame and end-frame; no frame call is outstanding outside a
\* RenderFrame call, so over the run the frame calls repeat (wait, begin,
\* end): begin and end are balanced and never nested.
C7_WaitBeginEndOncePerFrame ==
  /\ \A k \in DOMAIN frameCalls :
       /\ frameCalls[k].call = "xrWaitFrame" <=> k = 1
       /\ frameCalls[k].call = "xrBeginFrame" <=> k = 2
       /\ frameCalls[k].call = "xrEndFrame" => (k = Len(frameCalls) /\ k >= 3)
       /\ IsSwapchainCall(frameCalls[k]) =>
            /\ k > 2
            /\ \A j \in 1..k : frameCalls[j].call # "xrEndFrame"
  /\ pc = "RenderFrame_return" =>
       /\ Count("xrWaitFrame") = 1
       /\ Count("xrBeginFrame") = 1
       /\ Count("xrEndFrame") = 1
  /\ pc \in FramePcs \ { "RenderFrame_return" } => Count("xrEndFrame") = 0
  /\ pc \notin FramePcs \cup { "aborted" } => frameCalls = <<>>
  /\ pc = "xrWaitFrame" => frameCalls = <<>>

C7_Witness ==
  /\ pc = "RenderFrame_return"
  /\ viewCount = 2
  /\ Count("xrReleaseSwapchainImage") = 4

\* C8: the layer list given to end-frame holds exactly one projection layer,
\* referencing all projection views of the frame, if the render step
\* produced at least one projection view, and no layer otherwise (also when
\* view location succeeds with a view count of zero); never more than one.
C8_OneLayerIffProjectionViews ==
  frameEndInfo # NoFrameEnd =>
    /\ frameEndInfo.layerCount = IF Len(frameEndInfo.views) >= 1 THEN 1 ELSE 0
    /\ frameEndInfo.layerCount <= 1
    /\ frameEndInfo.layerCount = Len(frameEndInfo.layers)

NoImageAcquired(calls) ==
  \A k \in DOMAIN calls : calls[k].call # "xrAcquireSwapchainImage"

\* C9: when xrLocateViews fails in a frame, the frame acquires no swapchain
\* image, end-frame is still called once, with zero layers, the three flags
\* stay as they are, and control returns to the loop test of Run.
C9_LocateFailureSkipsOnlyTheFrame ==
  [][ (result = XR_ERROR \/ result' = XR_ERROR) =>
        /\ flags' = flags
        /\ NoImageAcquired(frameCalls) /\ NoImageAcquired(frameCalls')
        /\ acquired' = {}
        /\ result # XR_ERROR => (pc' = "xrEndFrame" /\ layers' = <<>>)
        /\ result = XR_ERROR =>
             /\ pc \in { "xrEndFrame", "RenderFrame_return" }
             /\ pc = "xrEndFrame" =>
                  /\ frameEndInfo = NoFrameEnd
                  /\ frameEndInfo'.layerCount = 0
                  /\ Len(frameCalls') = Len(frameCalls) + 1
                  /\ Last(frameCalls').call = "xrEndFrame"
                  /\ pc' \in { "RenderFrame_return", "aborted" }
             /\ pc = "RenderFrame_return" => (pc' = "while" /\ Count("xrEndFrame") = 1)
    ]_vars

C9_Witness ==
  /\ pc = "RenderFrame_return"
  /\ result = XR_ERROR
  /\ frameEndInfo.layerCount = 0
  /\ Count("xrEndFrame") = 1

\* C10 as stated: one drain pass per loop iteration before any frame call,
\* and a pass that started with n queued notifications, none added
\* meanwhile, returns having handled exactly n.
C10_DrainHandlesAllQueued ==
  /\ pc \in FramePcs \cup { "if_sessionRunning" } => iterPasses = 1
  /\ (pc = "if_sessionRunning" /\ ~pass.added) => pass.handled = pass.start

\* C10 amended: one drain pass per loop iteration before any frame call; the
\* pass returns at the first poll that does not return XR_SUCCESS, having
\* handled one notification per successful poll; with none added meanwhile
\* the handled and the still queued notifications add up to the n queued at
\* the start, and exactly n are handled when the last poll reported the
\* queue empty.
C10_DrainUntilPollDoesNotSucceed ==
  /\ pc \in FramePcs \cup { "if_sessionRunning" } => iterPasses = 1
  /\ pc = "PollEvents" =>
       /\ iterPasses = 0
       /\ pass.last \in { "none", XR_SUCCESS }
       /\ ~pass.added => pass.handled + Len(queue) = pass.start
  /\ pc = "if_sessionRunning" =>
       /\ pass.last \in { XR_EVENT_UNAVAILABLE, XR_ERROR }
       /\ ~pass.added => pass.handled + Len(queue) = pass.start
       /\ pass.last = XR_EVENT_UNAVAILABLE =>
            /\ queue = <<>>
            /\ ~pass.added => pass.handled = pass.start

C10_Witness ==
  /\ pc = "if_sessionRunning"
  /\ pass.start = 3
  /\ pass.handled = 3
  /\ ~pass.added
  /\ pass.last = XR_EVENT_UNAVAILABLE

\* The effect the handling of one notification has on the three flags, as a
\* table over the notification kinds.
Effect(ev, f) ==
  IF ev = InstanceLossPending THEN [f EXCEPT !.run = FALSE, !.app = FALSE]
  ELSE IF ~IsOwnedStateChange(ev) THEN f
  ELSE IF ev = Ready THEN [st |-> ev.state, run |-> TRUE, app |-> f.app]
  ELSE IF ev = Stopping THEN [st |-> ev.state, run |-> FALSE, app |-> f.app]
  ELSE IF ev \in { Exiting, LossPending } THEN [st |-> ev.state, run |-> FALSE, app |-> FALSE]
  ELSE [f EXCEPT !.st = ev.state]

\* Left-to-right composition of the effects of a sequence of notifications.
RECURSIVE Compose(_, _)
Compose(h, f) == IF h = <<>> THEN f ELSE Compose(Tail(h), Effect(Head(h), f))

InitialFlags == [st |-> XR_SESSION_STATE_UNKNOWN, run |-> FALSE, app |-> TRUE]

\* C11: notifications are handled strictly in delivery order (each handled
\* notification is the head of the runtime's queue) and each handler sees
\* the flags left by the previous one: after every handler the three flags
\* equal the left-to-right composition of the per-notification effects, so
\* [Ready, Stopping] leaves SessionRunning false and [Stopping, Ready] true.
C11_HandledInOrderAndComposed ==
  [][ /\ handled' # handled =>
           /\ queue # <<>>
           /\ handled' = Append(handled, Head(queue))
           /\ queue' = Tail(queue)
      /\ pc' # "aborted" =>
           [st |-> m_SessionState', run |-> m_sessionRunning', app |-> m_applicationRunning']
             = Compose(handled', InitialFlags)
      /\ (pc' # "aborted" /\ handled' = << Ready, Stopping >>) => ~m_sessionRunning'
      /\ (pc' # "aborted" /\ handled' = << Stopping, Ready >>) => m_sessionRunning'
    ]_vars

C11_Witness ==
  /\ pc = "if_sessionRunning"
  /\ handled = << Stopping, Ready >>
  /\ pass.handled = 2
  /\ m_sessionRunning
  /\ m_SessionState = XR_SESSION_STATE_READY


\* The state carried by the last owned-session state change of h.
RECURSIVE LastOwnedState(_)
LastOwnedState(h) ==
  IF h = <<>> THEN XR_SESSION_STATE_UNKNOWN
  ELSE IF IsOwnedStateChange(Last(h)) THEN Last(h).state
  ELSE LastOwnedState(SubSeq(h, 1, Len(h) - 1))

Focused == Event(XR_TYPE_EVENT_DATA_SESSION_STATE_CHANGED, m_Session, XR_SESSION_STATE_FOCUSED)

\* C12: SessionState equals the state carried by the most recently handled
\* state-changed notification for the owned session (Unknown if none), for
\* every one of the nine states and whatever the state before, and only the
\* handling of such a notification changes SessionState.
C12_SessionStateIsLastOwnedChange ==
  [][ /\ pc' # "aborted" => m_SessionState' = LastOwnedState(handled')
      /\ m_SessionState' # m_SessionState =>
           /\ handled' = Append(handled, Last(handled'))
           /\ IsOwnedStateChange(Last(handled'))
           /\ Last(handled').state = m_SessionState'
      /\ (handled' # handled /\ IsOwnedStateChange(Last(handled')) /\ pc' # "aborted")
           => m_SessionState' = Last(handled').state
    ]_vars

C12_Witness ==
  /\ pc = "DestroySession"
  /\ handled = << Ready, Focused, InstanceLossPending >>
  /\ m_SessionState = XR_SESSION_STATE_FOCUSED

\* The notifications the switch of PollEvents is to ignore.
Ignored(ev) ==
  \/ ev.type \in { XR_TYPE_EVENT_DATA_EVENTS_LOST,
                   XR_TYPE_EVENT_DATA_INTERACTION_PROFILE_CHANGED,
                   XR_TYPE_EVENT_DATA_REFERENCE_SPACE_CHANGE_PENDING }
  \/ (ev.type = XR_TYPE_EVENT_DATA_SESSION_STATE_CHANGED /\ ev.session # m_Session)

\* C13: handling an events-lost, interaction-profile-changed or
\* reference-space-change-pending notification (any session), or a
\* state-changed notification for another session (any carried state),
\* leaves the three flags unchanged and calls neither xrBeginSession nor
\* xrEndSession.
C13_IgnoredNotificationsChangeNothing ==
  [][ (handled' # handled /\ Ignored(Last(handled'))) =>
        /\ flags' = flags
        /\ sessionCalls' = sessionCalls
        /\ pc' = "PollEvents"
    ]_vars

C13_Witness ==
  /\ pc = "PollEvents"
  /\ handled = << Ready,
                  Event(XR_TYPE_EVENT_DATA_SESSION_STATE_CHANGED, OtherSession,
                        XR_SESSION_STATE_EXITING) >>
  /\ m_sessionRunning
  /\ m_applicationRunning = TRUE
  /\ m_SessionState = XR_SESSION_STATE_READY
  /\ sessionCalls = << "xrBeginSession" >>

\* C14: handling an instance-loss-pending notification sets SessionRunning
\* and ApplicationRunning to false from every prior state, with no session
\* handle compared, leaves SessionState unchanged and calls neither
\* xrBeginSession nor xrEndSession.
C14_InstanceLossClearsBothFlags ==
  [][ (handled' # handled /\ Last(handled') = InstanceLossPending) =>
        /\ ~m_sessionRunning'
        /\ ~m_applicationRunning'
        /\ m_SessionState' = m_SessionState
        /\ sessionCalls' = sessionCalls
        /\ pc' = "PollEvents"
    ]_vars

C14_Witness ==
  /\ pc = "PollEvents"
  /\ handled = << Ready, Synchronized, InstanceLossPending >>
  /\ ~m_sessionRunning
  /\ ~m_applicationRunning
  /\ m_SessionState = XR_SESSION_STATE_SYNCHRONIZED
  /\ sessionCalls = << "xrBeginSession" >>

\* The first entry of a preference list that is in the supported set, the
\* default when there is none.
FirstSupported(preferences, supported, default) ==
  IF \E k \in DOMAIN preferences : preferences[k] \in supported
  THEN preferences[CHOOSE k \in DOMAIN preferences :
                     /\ preferences[k] \in supported
                     /\ \A j \in 1..(k - 1) : preferences[j] \notin supported]
  ELSE default

\* The named startup step has run to its end.
StepDone(step) ==
  /\ \E k \in DOMAIN lifeCalls : lifeCalls[k] = step
  /\ ~(pc = "aborted" /\ Last(lifeCalls) = step)

\* C15: view-configuration and blend-mode negotiation select the first entry
\* of the preference list that the runtime supports, and the default
\* (PRIMARY_STEREO, OPAQUE) when no entry is supported or the supported set
\* is empty; the result is always a proper value and depends only on the
\* preference list and the supported set ([A, B, C] with {B, C} gives B;
\* [Stereo, Mono] with {Mono} gives Mono).
C15_NegotiationPicksFirstSupported ==
  /\ StepDone("GetViewConfigurationViews") =>
       /\ m_viewConfiguration =
            FirstSupported(m_applicationViewConfigurations, m_viewConfigurations,
                           XR_VIEW_CONFIGURATION_TYPE_PRIMARY_STEREO)
       /\ m_viewConfiguration \in XrViewConfigurationType
       /\ m_viewConfigurations = {} =>
            m_viewConfiguration = XR_VIEW_CONFIGURATION_TYPE_PRIMARY_STEREO
       /\ ( /\ m_applicationViewConfigurations =
                 << XR_VIEW_CONFIGURATION_TYPE_PRIMARY_STEREO,
                    XR_VIEW_CONFIGURATION_TYPE_PRIMARY_MONO >>
            /\ m_viewConfigurations = { XR_VIEW_CONFIGURATION_TYPE_PRIMARY_MONO } )
            => m_viewConfiguration = XR_VIEW_CONFIGURATION_TYPE_PRIMARY_MONO
  /\ StepDone("GetEnvironmentBlendModes") =>
       /\ m_environmentBlendMode =
            FirstSupported(m_applicationEnvironmentBlendModes, m_environmentBlendModes,
                           XR_ENVIRONMENT_BLEND_MODE_OPAQUE)
       /\ m_environmentBlendMode \in XrEnvironmentBlendMode
       /\ m_environmentBlendModes = {} =>
            m_environmentBlendMode = XR_ENVIRONMENT_BLEND_MODE_OPAQUE
       /\ ( /\ m_applicationEnvironmentBlendModes =
                 << XR_ENVIRONMENT_BLEND_MODE_ALPHA_BLEND,
                    XR_ENVIRONMENT_BLEND_MODE_ADDITIVE,
                    XR_ENVIRONMENT_BLEND_MODE_OPAQUE >>
            /\ m_environmentBlendModes = { XR_ENVIRONMENT_BLEND_MODE_ADDITIVE,
                                           XR_ENVIRONMENT_BLEND_MODE_OPAQUE } )
            => m_environmentBlendMode = XR_ENVIRONMENT_BLEND_MODE_ADDITIVE

C15_Witness ==
  /\ pc = "while"
  /\ m_applicationViewConfigurations =
       << XR_VIEW_CONFIGURATION_TYPE_PRIMARY_STEREO, XR_VIEW_CONFIGURATION_TYPE_PRIMARY_MONO >>
  /\ m_viewConfigurations = { XR_VIEW_CONFIGURATION_TYPE_PRIMARY_MONO }
  /\ m_viewConfiguration = XR_VIEW_CONFIGURATION_TYPE_PRIMARY_MONO
  /\ m_applicationEnvironmentBlendModes =
       << XR_ENVIRONMENT_BLEND_MODE_ALPHA_BLEND, XR_ENVIRONMENT_BLEND_MODE_ADDITIVE,
          XR_ENVIRONMENT_BLEND_MODE_OPAQUE >>
  /\ m_environmentBlendModes =
       { XR_ENVIRONMENT_BLEND_MODE_ADDITIVE, XR_ENVIRONMENT_BLEND_MODE_OPAQUE }
  /\ m_environmentBlendMode = XR_ENVIRONMENT_BLEND_MODE_ADDITIVE

\* The resources of Run in creation order, with their create and destroy calls.
Resources == << "Instance", "DebugMessenger", "Session", "ReferenceSpace", "Swapchains" >>
CreateCall ==
  [ Instance |-> "CreateInstance", DebugMessenger |-> "CreateDebugMessenger",
    Session |-> "CreateSession", ReferenceSpace |-> "CreateReferenceSpace",
    Swapchains |-> "CreateSwapchains" ]
DestroyCall ==
  [ Instance |-> "DestroyInstance", DebugMessenger |-> "DestroyDebugMessenger",
    Session |-> "DestroySession", ReferenceSpace |-> "DestroyReferenceSpace",
    Swapchains |-> "DestroySwapchains" ]

Positions(call) == { k \in DOMAIN lifeCalls : lifeCalls[k] = call }

AnyDestroyCalled ==
  \E k \in DOMAIN Resources : Positions(DestroyCall[Resources[k]]) # {}

TeardownPcs ==
  { "DestroySwapchains", "DestroyReferenceSpace", "DestroySession",
    "DestroyDebugMessenger", "DestroyInstance" }

ShutdownHandled ==
  \E k \in DOMAIN handled : handled[k] \in { InstanceLossPending, Exiting, LossPending }

LoopExited == pc \in TeardownPcs \cup { "done" }

\* All five destroy calls of Run have been made.
TeardownComplete == lifeCalls # <<>> /\ Last(lifeCalls) = "DestroyInstance"

\* What C17 says of every state and step: the loop is left only after a
\* shutdown notification was handled, which is exactly when
\* m_applicationRunning is false; the flag is tested at the loop test only
\* (a pass goes on after the flag is cleared, and the frame test that
\* follows reads m_sessionRunning alone), and teardown is entered from the
\* loop test only.
C17_Safety ==
  /\ [](LoopExited => ShutdownHandled)
  /\ [](~m_applicationRunning <=> ShutdownHandled)
  /\ [][ /\ (pc' = "DestroySwapchains" /\ pc # "DestroySwapchains")
              => (pc = "while" /\ ~m_applicationRunning)
         /\ (pc = "while" /\ pc' # "while")
              => pc' = IF m_applicationRunning THEN "PollEvents" ELSE "DestroySwapchains"
         /\ (pc = "if_sessionRunning" /\ pc' # pc)
              => pc' = IF m_sessionRunning THEN "xrWaitFrame" ELSE "while"
         /\ (m_applicationRunning /\ ~m_applicationRunning') => pc' = "PollEvents"
     ]_vars

C18_SessionCallFailureIsFatal ==
  [][ /\ (handled' # handled /\ Last(handled') \in { Ready, Stopping }) =>
           /\ Len(sessionCalls') = Len(sessionCalls) + 1
           /\ pc' \in { "PollEvents", "aborted" }
           /\ pc' = "aborted" => flags' = flags
           /\ pc' = "PollEvents" =>
                /\ m_sessionRunning' = (Last(handled') = Ready)
                /\ m_SessionState' = Last(handled').state
      /\ pc = "aborted" => vars' = vars
    ]_vars

C18_Witness ==
  /\ pc = "aborted"
  /\ handled = << Ready, Stopping >>
  /\ sessionCalls = << "xrBeginSession", "xrEndSession" >>
  /\ m_sessionRunning
  /\ m_SessionState = XR_SESSION_STATE_READY
  /\ frameCalls = <<>>

\* ------------------------------------------------------------------ C19
\* The creation steps of Run, in the order of its calls.
StartupSteps ==
  << "CreateInstance", "CreateDebugMessenger", "GetInstanceProperties", "GetSystemID",
     "GetViewConfigurationViews", "GetEnvironmentBlendModes", "CreateSession",
     "CreateReferenceSpace", "CreateSwapchains" >>

StartupPcs == { StartupSteps[k] : k \in DOMAIN StartupSteps }

\* The main loop and everything after it.
AfterStartupPcs == { "while", "PollEvents", "if_sessionRunning", "done" }
                     \cup FramePcs \cup TeardownPcs

\* Every swapchain of every view has been created, with its image views.
AllSwapchainsCreated ==
  /\ Len(m_colorSwapchainInfos) = m_viewConfigurationViews
  /\ Len(m_depthSwapchainInfos) = m_viewConfigurationViews
  /\ \A v \in 1..m_viewConfigurationViews :
       /\ m_colorSwapchainInfos[v].swapchain # XR_NULL_HANDLE
       /\ m_depthSwapchainInfos[v].swapchain # XR_NULL_HANDLE
       /\ m_colorSwapchainInfos[v].imageViews # <<>>
       /\ m_depthSwapchainInfos[v].imageViews # <<>>

\* C19: the creation steps run in their fixed order, each only after the one
\* before it succeeded. A creation step that fails (instance, system id, view
\* configuration or blend mode enumeration, session, reference space, or a
\* call of swapchain creation) is the last thing the program does: the failed
\* call is the last call made, no later creation step is invoked, and the
\* main loop (polling, frames) is never entered. The loop is entered only
\* from a successful CreateSwapchains, with all nine steps made.
C19_StartupFailureAbortsStartup ==
  [][ /\ pc \in StartupPcs =>
           /\ lifeCalls' = Append(lifeCalls, pc)
           /\ \E k \in DOMAIN StartupSteps :
                /\ StartupSteps[k] = pc
                /\ SubSeq(StartupSteps, 1, k) = lifeCalls'
                /\ pc' \in { "aborted",
                             IF k < Len(StartupSteps) THEN StartupSteps[k + 1] ELSE "while" }
           /\ handled' = <<>> /\ sessionCalls' = <<>> /\ frameCalls' = <<>>
           /\ flags' = flags
           /\ pc # "CreateSwapchains" => swapchainCalls' = <<>>
      /\ (pc = "CreateSwapchains" /\ pc' = "aborted") =>
           /\ swapchainCalls' # <<>>
           /\ CheckedResourceCall(Last(swapchainCalls'))
           /\ ~AllSwapchainsCreated'
      /\ (pc \in StartupPcs /\ pc' \in AfterStartupPcs) =>
           /\ pc = "CreateSwapchains" /\ pc' = "while"
           /\ lifeCalls' = StartupSteps
           /\ AllSwapchainsCreated'
      /\ pc = "aborted" => vars' = vars
    ]_vars

\* Startup was stopped by the creation of the color swapchain of the second
\* view, after the swapchains of the first view were created.
C19_Witness ==
  /\ pc = "aborted"
  /\ lifeCalls = StartupSteps
  /\ handled = <<>>
  /\ swapchainCalls # <<>>
  /\ Last(swapchainCalls) = ResourceCall("xrCreateSwapchain", "color", 1, -1)

\* ------------------------------------------------------------------ C20
\* The positions of swapchainCalls at which the given call is logged.
ResourcePositions(name, kind, v) ==
  { p \in DOMAIN swapchainCalls :
      /\ swapchainCalls[p].call = name
      /\ swapchainCalls[p].swapchain = kind
      /\ swapchainCalls[p].view = v }

ImagePositions(name, kind, v, image) ==
  { p \in ResourcePositions(name, kind, v) : swapchainCalls[p].image = image }

\* The images the runtime enumerated for a swapchain (the answer of the last
\* xrEnumerateSwapchainImages on it).
EnumeratedImages(kind, v) ==
  LET ps == ResourcePositions("xrEnumerateSwapchainImages", kind, v)
  IN  IF ps = {} THEN {}
      ELSE 0..(swapchainCalls[CHOOSE p \in ps : \A q \in ps : q <= p].image - 1)

SwapchainKinds == { "color", "depth" }

\* CreateSwapchains has returned / DestroySwapchains has returned.
CreateSwapchainsReturned == Len(lifeCalls) >= Len(StartupSteps) /\ pc \in AfterStartupPcs
DestroySwapchainsReturned ==
  \E k \in DOMAIN lifeCalls : lifeCalls[k] = "DestroySwapchains" /\ k < Len(lifeCalls)

\* C20: with N views, CreateSwapchains creates one color and one depth
\* swapchain per view (N of each, none for any other view) and one image view
\* for each image the runtime enumerated for a swapchain. DestroySwapchains
\* destroys the image views of a swapchain before the swapchain, destroys
\* no swapchain and no image view twice and none that was not created, and
\* once it has returned every created swapchain and image view has been
\* destroyed; DestroySession and DestroyInstance are called only after that.
C20_SwapchainsCreatedAndDestroyedPerView ==
  /\ \A p \in DOMAIN swapchainCalls :
       swapchainCalls[p].view \in -1..(m_viewConfigurationViews - 1)
  /\ \A kind \in SwapchainKinds, v \in 0..(m_viewConfigurationViews - 1) :
       LET created == ResourcePositions("xrCreateSwapchain", kind, v)
           destroyed == ResourcePositions("xrDestroySwapchain", kind, v)
       IN  /\ Cardinality(created) <= 1
           /\ Cardinality(destroyed) <= Cardinality(created)
           /\ \A c \in created, d \in destroyed : c < d
           /\ CreateSwapchainsReturned =>
                /\ Cardinality(created) = 1
                /\ \A p \in ResourcePositions("CreateImageView", kind, v) :
                     swapchainCalls[p].image \in EnumeratedImages(kind, v)
                /\ \A image \in EnumeratedImages(kind, v) :
                     Cardinality(ImagePositions("CreateImageView", kind, v, image)) = 1
           /\ \A p \in ResourcePositions("DestroyImageView", kind, v) :
                LET image == swapchainCalls[p].image
                IN  /\ ImagePositions("DestroyImageView", kind, v, image) = { p }
                    /\ \E c \in ImagePositions("CreateImageView", kind, v, image) : c < p
                    /\ \A d \in destroyed : p < d
           /\ \A d \in destroyed :
                \A c \in ResourcePositions("CreateImageView", kind, v) :
                  \E p \in ImagePositions("DestroyImageView", kind, v, swapchainCalls[c].image) :
                    c < p /\ p < d
           /\ DestroySwapchainsReturned =>
                /\ Cardinality(destroyed) = 1
                /\ \A c \in ResourcePositions("CreateImageView", kind, v) :
                     Cardinality(ImagePositions("DestroyImageView", kind, v,
                                                swapchainCalls[c].image)) = 1
  /\ \A k \in DOMAIN lifeCalls :
       lifeCalls[k] \in { "DestroySession", "DestroyInstance" } =>
         /\ \E d \in 1..(k - 1) : lifeCalls[d] = "DestroySwapchains"
         /\ \A kind \in SwapchainKinds, v \in 0..(m_viewConfigurationViews - 1) :
              Cardinality(ResourcePositions("xrDestroySwapchain", kind, v)) = 1

\* A complete run in which the color swapchain of the first view had one
\* image and its depth swapchain two, all created and all destroyed.
C20_Witness ==
  /\ pc = "done"
  /\ Len(m_colorSwapchainInfos[1].imageViews) = 1
  /\ Len(m_depthSwapchainInfos[1].imageViews) = MaxImages
  /\ Cardinality({ p \in DOMAIN swapchainCalls :
                     swapchainCalls[p].call = "xrDestroySwapchain" })
       = 2 * m_viewConfigurationViews

\* ------------------------------------------------------------------ C21
\* C21: two runs of the two-call enumeration protocol (count query with zero
\* capacity, vector sized to the count, fill) against the same runtime array
\* give the same count and the same vector, the vector is as long as the
\* count, and it holds the runtime's array.
C21_EnumerationRoundTrip ==
  /\ \A r \in DOMAIN enumRuns :
       /\ Len(enumRuns[r].vector) = enumRuns[r].count
       /\ enumRuns[r].vector = runtimeItems
  /\ \A r, q \in DOMAIN enumRuns : enumRuns[r] = enumRuns[q]

\* Two runs were completed against a runtime array of more than one item.
C21_Witness ==
  /\ Len(enumRuns) = 2
  /\ Len(runtimeItems) > 1
  /\ enumRuns[2].count = Len(runtimeItems)

\* ------------------------------------------------------------------ C22
\* The calls of the current frame on the swapchain of the given kind of
\* view v, by name and in the order they were made.
RECURSIVE CallsOn(_, _, _)
CallsOn(calls, kind, v) ==
  IF calls = <<>> THEN <<>>
  ELSE IF Head(calls).swapchain = kind /\ Head(calls).view = v
       THEN << Head(calls).call >> \o CallsOn(Tail(calls), kind, v)
       ELSE CallsOn(Tail(calls), kind, v)

\* What RenderLayer does with one swapchain of a view.
ImageProtocol(kind) ==
  << "xrAcquireSwapchainImage", "xrWaitSwapchainImage",
     IF kind = "color" THEN "ClearColor" ELSE "ClearDepth",
     "xrReleaseSwapchainImage" >>

\* RenderLayer has returned true in this frame.
FrameRendered == rendered /\ pc \in { "xrEndFrame", "RenderFrame_return" }

\* C22: in a frame, the calls on each swapchain (color and depth of a view)
\* are a prefix of acquire, wait, clear, release, so at most one image of a
\* swapchain is held at any time; only views below the located view count
\* are touched, in increasing order of their index; the image view cleared
\* is the one of the image that was acquired; and in a rendered frame every
\* swapchain of every located view has gone through the four calls, so that
\* at xrEndFrame no acquired image is unreleased.
C22_ImageProtocolPerViewAndSwapchain ==
  /\ \A kind \in SwapchainKinds, v \in 0..(MaxViews - 1) :
       LET on == CallsOn(frameCalls, kind, v)
       IN  /\ Len(on) <= 4
           /\ on = SubSeq(ImageProtocol(kind), 1, Len(on))
           /\ on # <<>> => v < viewCount
           /\ (FrameRendered /\ v < viewCount) => on = ImageProtocol(kind)
           /\ (<<kind, v>> \in acquired) <=> Len(on) \in 1..3
  /\ \A p, q \in DOMAIN frameCalls :
       (p < q /\ frameCalls[p].view >= 0 /\ frameCalls[q].view >= 0) =>
         frameCalls[p].view <= frameCalls[q].view
  /\ pc \in { "xrReleaseColor", "xrReleaseDepth" } =>
       /\ Len(clearedImageViews) = 2 * (i + 1)
       /\ clearedImageViews[2 * i + 1] = << "color", i, colorImageIndex >>
       /\ clearedImageViews[2 * i + 2] = << "depth", i, depthImageIndex >>
  /\ (pc \in { "xrEndFrame", "RenderFrame_return" }) =>
       /\ acquired = {}
       /\ Len(clearedImageViews) = (IF FrameRendered THEN 2 * viewCount ELSE 0)

\* xrEndFrame is about to be called in a rendered frame of two views in
\* which the runtime handed out the second image of a swapchain.
C22_Witness ==
  /\ pc = "xrEndFrame"
  /\ FrameRendered
  /\ viewCount = 2
  /\ \E k \in DOMAIN clearedImageViews : clearedImageViews[k][3] = 1

\* ------------------------------------------------------------------ C23
\* C23: ApplicationRunning starts true and no step of the program (a
\* notification handler, a frame step, a creation or destroy step) makes it
\* true once it is false; an owned-session Ready handled while it is false
\* sets SessionRunning (when xrBeginSession succeeds) and leaves
\* ApplicationRunning false.
C23_ApplicationRunningIsMonotone ==
  /\ m_applicationRunning = TRUE
  /\ [][ /\ m_applicationRunning' => m_applicationRunning
         /\ (/\ ~m_applicationRunning
             /\ handled' # handled
             /\ Last(handled') = Ready
             /\ pc' # "aborted") =>
              (m_sessionRunning' /\ ~m_applicationRunning')
       ]_vars

\* A Ready notification was handled after an Exiting one: the session runs,
\* the application does not.
C23_Witness ==
  /\ handled = << Exiting, Ready >>
  /\ m_sessionRunning
  /\ ~m_applicationRunning

\* ------------------------------------------------------------------ C24
\* What the program does once ApplicationRunning is false, step by step: the
\* drain pass in progress goes on handling the head of the queue; when the
\* pass has returned, RenderFrame is entered only from the test of
\* m_sessionRunning, and only if it is true; RenderFrame returns to the loop
\* test; the loop test leads to teardown; and no drain pass is started.
AfterShutdownStep ==
  ~m_applicationRunning =>
    /\ (pc = "PollEvents" /\ handled' # handled) => handled' = Append(handled, Head(queue))
    /\ pc = "PollEvents" => pc' \in { "PollEvents", "if_sessionRunning", "aborted" }
    /\ pc = "if_sessionRunning" => pc' = (IF m_sessionRunning THEN "xrWaitFrame" ELSE "while")
    /\ (pc' = "xrWaitFrame" /\ pc # pc') => (pc = "if_sessionRunning" /\ m_sessionRunning)
    /\ pc = "RenderFrame_return" => pc' = "while"
    /\ (pc = "while" /\ pc' # pc) => pc' = "DestroySwapchains"
    /\ pc # "PollEvents" => pc' # "PollEvents"

\* C24 as stated: after ApplicationRunning has become false in a drain pass,
\* the pass returns only when the notifications queued are all handled, then
\* RenderFrame is called at most once more (only if SessionRunning is true
\* when the pass returns), no further pass starts, and teardown begins.
C24_ShutdownDrainsAllThenTeardown ==
  /\ [][ /\ AfterShutdownStep
         /\ (~m_applicationRunning /\ pc = "PollEvents" /\ pc' = "if_sessionRunning") =>
              queue = <<>>
       ]_vars
  /\ (~m_applicationRunning ~> LoopExited)

\* C24 amended: the pass goes on until a poll does not succeed (queue empty
\* or a runtime error, which leaves notifications queued), and teardown
\* begins unless a checked call of the pass or of the one more frame fails,
\* which stops the program.
C24_ShutdownDrainsUntilPollFailsThenTeardown ==
  /\ [][ /\ AfterShutdownStep
         /\ (~m_applicationRunning /\ pc = "PollEvents" /\ pc' = "if_sessionRunning") =>
              (pass'.last \in { XR_EVENT_UNAVAILABLE, XR_ERROR } /\ queue' = queue)
       ]_vars
  /\ (~m_applicationRunning ~> (LoopExited \/ pc = "aborted"))

\* Teardown begins after a pass that handled Exiting and then Ready: one
\* more RenderFrame was called with ApplicationRunning false.
C24_Witness ==
  /\ pc = "DestroySwapchains"
  /\ handled = << Exiting, Ready >>
  /\ m_sessionRunning
  /\ ~m_applicationRunning

\* ------------------------------------------------------------------ C25
\* The owned-session Ready and Stopping notifications handled so far.
RECURSIVE SessionBoundaries(_)
SessionBoundaries(h) ==
  IF h = <<>> THEN <<>>
  ELSE IF Head(h) \in { Ready, Stopping }
       THEN << Head(h) >> \o SessionBoundaries(Tail(h))
       ELSE SessionBoundaries(Tail(h))

\* C25: while RenderFrame runs (from its xrWaitFrame call on), at least one
\* xrBeginSession call has been made and the last call among xrBeginSession
\* and xrEndSession is an xrBeginSession; a Ready notification has been
\* handled and no Stopping notification has been handled after the last
\* Ready.
C25_FramesOnlyInsideBegunSession ==
  (pc \in FramePcs \/ frameCalls # <<>>) =>
    /\ sessionCalls # <<>>
    /\ Last(sessionCalls) = "xrBeginSession"
    /\ SessionBoundaries(handled) # <<>>
    /\ Last(SessionBoundaries(handled)) = Ready

\* A frame in a session that was begun, ended and begun again.
C25_Witness ==
  /\ pc = "xrBeginFrame"
  /\ handled = << Ready, Stopping, Ready >>
  /\ sessionCalls = << "xrBeginSession", "xrEndSession", "xrBeginSession" >>

\* ------------------------------------------------------------------ C26
SessionCallCount(name) ==
  Cardinality({ k \in DOMAIN sessionCalls : sessionCalls[k] = name })

\* The k-th notification handled is a shutdown signal, and it was handled
\* with ApplicationRunning and SessionRunning both true.
EndedWhileSessionRunning(k) ==
  /\ handled[k] \in { InstanceLossPending, Exiting, LossPending }
  /\ LET before == Compose(SubSeq(handled, 1, k - 1), InitialFlags)
     IN  before.app /\ before.run

\* An xrEndSession call is made only by the step that handles an
\* owned-session Stopping notification.
EndSessionOnlyOnStopping ==
  sessionCalls' # sessionCalls =>
    /\ pc = "PollEvents"
    /\ handled' = Append(handled, Head(queue))
    /\ Head(queue) \in { Ready, Stopping }
    /\ sessionCalls' = Append(sessionCalls,
                              IF Head(queue) = Stopping THEN "xrEndSession"
                              ELSE "xrBeginSession")

\* Ready and Stopping notifications alternate, starting with Ready.
Alternating(boundaries) ==
  \A k \in DOMAIN boundaries :
    boundaries[k] = (IF k % 2 = 1 THEN Ready ELSE Stopping)

\* C26 as stated: xrEndSession is called only while an owned-session
\* Stopping notification is handled, and when the loop was ended by Exiting,
\* LossPending or instance-loss-pending while SessionRunning was true,
\* DestroySession is reached with one more xrBeginSession call than
\* xrEndSession calls.
C26_OneMoreBeginThanEnd ==
  /\ [][EndSessionOnlyOnStopping]_vars
  /\ [](pc = "DestroySession" =>
          \A k \in DOMAIN handled :
            EndedWhileSessionRunning(k) =>
              SessionCallCount("xrBeginSession") = SessionCallCount("xrEndSession") + 1)

\* C26 amended: xrEndSession is called only while an owned-session Stopping
\* notification is handled; when the loop was ended by a shutdown signal
\* while SessionRunning was true, the session calls at DestroySession are
\* the ones the Ready and Stopping notifications asked for, the last call
\* made before the signal is an xrBeginSession, and when no Ready or
\* Stopping was handled after the signal it is still the last call, and
\* the xrBeginSession calls are one more than the xrEndSession calls if
\* the Ready and Stopping notifications handled alternate, starting with
\* Ready.
C26_SessionLeftBegunAtDestroy ==
  /\ [][EndSessionOnlyOnStopping]_vars
  /\ [](pc = "DestroySession" =>
          \A k \in DOMAIN handled :
            EndedWhileSessionRunning(k) =>
              LET upTo == ExpectedSessionCalls(SubSeq(handled, 1, k))
              IN  /\ sessionCalls = ExpectedSessionCalls(handled)
                  /\ upTo # <<>>
                  /\ Last(upTo) = "xrBeginSession"
                  /\ (\A j \in (k + 1)..Len(handled) : handled[j] \notin { Ready, Stopping }) =>
                       /\ sessionCalls = upTo
                       /\ Alternating(SessionBoundaries(handled)) =>
                            SessionCallCount("xrBeginSession")
                              = SessionCallCount("xrEndSession") + 1)

\* DestroySession is reached after [Ready, Exiting]: the session was begun
\* and never ended.
C26_Witness ==
  /\ pc = "DestroySession"
  /\ handled = << Ready, Exiting >>
  /\ sessionCalls = << "xrBeginSession" >>

\* ------------------------------------------------------------------ C27
\* A drain pass has just been ended by a poll error, with the application
\* running.
ErrorEndedPass ==
  pc = "if_sessionRunning" /\ pass.last = XR_ERROR /\ m_applicationRunning

\* The poll that ends a pass did not succeed and changes no flag, handles
\* nothing and takes nothing from the queue; a notification is handled only
\* by a poll that succeeded; neither the tests of Run nor a frame step
\* change a flag; and the tests of Run go where the flags say.
PollFailureChangesNothing ==
  /\ (pc = "PollEvents" /\ pc' = "if_sessionRunning") =>
       /\ pass'.last \in { XR_EVENT_UNAVAILABLE, XR_ERROR }
       /\ flags' = flags
       /\ handled' = handled
       /\ queue' = queue
  /\ handled' # handled => pass'.last = XR_SUCCESS
  /\ pc \in FramePcs \cup { "if_sessionRunning", "while" } => flags' = flags
  /\ pc = "if_sessionRunning" => pc' = (IF m_sessionRunning THEN "xrWaitFrame" ELSE "while")
  /\ (pc = "while" /\ pc' # pc) =>
       pc' = (IF m_applicationRunning THEN "PollEvents" ELSE "DestroySwapchains")

====
